---- MODULE Spec2Model ----
(***************************************************************************)
(* Session analytics of prompt-discipline: the twelve-category scorecard   *)
(* (src/tools/generate-scorecard.ts), the correction-pattern learner       *)
(* (src/lib/patterns.ts) and the correction log handlers of the MCP server *)
(* (mcp-server/src/index.js).                                              *)
(*                                                                         *)
(* Numbers: JavaScript doubles are modelled by exact rationals n/d that    *)
(* are passed as numerator and denominator.  Event content is modelled by  *)
(* the facts the regular expressions of the source extract from it.        *)
(***************************************************************************)
EXTENDS Integers, Sequences, FiniteSets, TLC

VARIABLES sessions, card, log, store, ret

vars == <<sessions, card, log, store, ret>>

\* ------------------------------------------------------------------------
\* Bounds
\* ------------------------------------------------------------------------
MaxEvents == 3

\* ------------------------------------------------------------------------
\* Generic helpers
\* ------------------------------------------------------------------------
Max(a, b) == IF a >= b THEN a ELSE b

Min(a, b) == IF a <= b THEN a ELSE b

\* all sequences over S of length 0..n
SeqsUpTo(S, n) == UNION {[1..k -> S] : k \in 0..n}

\* the elements of a finite set of integers in ascending order
RECURSIVE Ascending(_)
Ascending(S) ==
  IF S = {} THEN <<>>
  ELSE LET m == CHOOSE x \in S : \A y \in S : x <= y
       IN <<m>> \o Ascending(S \ {m})

\* Array.prototype.slice(from, to) with 0-based, end-exclusive indices
Slice(s, from, to) ==
  LET lo == Max(0, from)
      hi == Min(Len(s), to)
  IN IF hi <= lo THEN <<>> ELSE [k \in 1..(hi - lo) |-> s[lo + k]]

\* number of elements of s satisfying Test
Count(s, Test(_)) == Cardinality({k \in 1..Len(s) : Test(s[k])})

Some(s, Test(_)) == \E k \in 1..Len(s) : Test(s[k])

RECURSIVE SumSeq(_)
SumSeq(s) == IF s = <<>> THEN 0 ELSE s[1] + SumSeq(Tail(s))

\* Math.round of the rational n/d (d > 0): round half towards +infinity
MathRound(n, d) == (2 * n + d) \div (2 * d)

\* ------------------------------------------------------------------------
\* Grading
\* ------------------------------------------------------------------------
letterGrade(score) ==
  IF score >= 95 THEN "A+"
  ELSE IF score >= 90 THEN "A"
  ELSE IF score >= 85 THEN "A-"
  ELSE IF score >= 80 THEN "B+"
  ELSE IF score >= 75 THEN "B"
  ELSE IF score >= 70 THEN "B-"
  ELSE IF score >= 65 THEN "C+"
  ELSE IF score >= 60 THEN "C"
  ELSE IF score >= 55 THEN "C-"
  ELSE IF score >= 50 THEN "D"
  ELSE "F"

\* a variant without the lower limit
clamp_nofloor(n, d) == Min(100, MathRound(n, d))

\* clamp(v) for v = n/d
clamp(n, d) == Max(0, Min(100, MathRound(n, d)))

pct(num, den) == IF den = 0 THEN 100 ELSE MathRound(num * 100, den)

\* ------------------------------------------------------------------------
\* Events and sessions
\* ------------------------------------------------------------------------
\* A TimelineEvent.  content is represented by what the source reads from
\* it: its length, whether PATH_RE/FILE_EXT_RE match (fileRef), the first
\* directory-like path (area, "" when none), the file_path argument of a
\* tool call (file, "" when none), whether it mentions .claude/ or CLAUDE.md
\* (claude), whether it matches the context-doc expression (ctx) and the
\* test/build expression (verif).  timestamp is in minutes; tsValid is
\* FALSE when Date parsing gives NaN.
Ev(type, len, fileRef, area, file, claude, ctx, verif, tsValid, ts) ==
  [type |-> type, len |-> len, fileRef |-> fileRef, area |-> area,
   file |-> file, claude |-> claude, ctx |-> ctx, verif |-> verif,
   tsValid |-> tsValid, ts |-> ts]

Palette ==
  { Ev("user_prompt", 150, TRUE, "/src", "", FALSE, FALSE, FALSE, TRUE, 0),
    Ev("user_prompt", 10, FALSE, "", "", FALSE, FALSE, FALSE, TRUE, 20),
    Ev("assistant_response", 60, FALSE, "", "", TRUE, FALSE, FALSE, FALSE, 0),
    Ev("tool_call", 40, TRUE, "", "a.ts", FALSE, FALSE, TRUE, TRUE, 45),
    Ev("correction", 12, FALSE, "", "", FALSE, FALSE, FALSE, TRUE, 50),
    Ev("compaction", 0, FALSE, "", "", FALSE, FALSE, FALSE, TRUE, 90),
    Ev("git_commit", 30, FALSE, "", "", FALSE, FALSE, FALSE, TRUE, 100),
    Ev("sub_agent_spawn", 250, FALSE, "", "", FALSE, FALSE, FALSE, TRUE, 300) }

OfType(events, t) == SelectSeq(events, LAMBDA e : e.type = t)

\* a variant that lists a correction among the user messages as well
classifyEvents_both(events) ==
  [events |-> events,
   userMessages |-> SelectSeq(events, LAMBDA e :
                      e.type \in {"user_prompt", "correction"}),
   assistantMessages |-> OfType(events, "assistant_response"),
   toolCalls |-> OfType(events, "tool_call"),
   corrections |-> OfType(events, "correction"),
   compactions |-> OfType(events, "compaction"),
   commits |-> OfType(events, "git_commit"),
   subAgentSpawns |-> OfType(events, "sub_agent_spawn"),
   durationMinutes |->
     IF Len(events) >= 2
        /\ events[1].tsValid /\ events[Len(events)].tsValid
     THEN events[Len(events)].ts - events[1].ts
     ELSE 0]

\* a variant that tests only the first timestamp for NaN
classifyEvents_firstOnly(events) ==
  [events |-> events,
   userMessages |-> OfType(events, "user_prompt"),
   assistantMessages |-> OfType(events, "assistant_response"),
   toolCalls |-> OfType(events, "tool_call"),
   corrections |-> OfType(events, "correction"),
   compactions |-> OfType(events, "compaction"),
   commits |-> OfType(events, "git_commit"),
   subAgentSpawns |-> OfType(events, "sub_agent_spawn"),
   durationMinutes |->
     IF Len(events) >= 2
        /\ events[1].tsValid
     THEN events[Len(events)].ts - events[1].ts
     ELSE 0]

classifyEvents(events) ==
  [events |-> events,
   userMessages |-> OfType(events, "user_prompt"),
   assistantMessages |-> OfType(events, "assistant_response"),
   toolCalls |-> OfType(events, "tool_call"),
   corrections |-> OfType(events, "correction"),
   compactions |-> OfType(events, "compaction"),
   commits |-> OfType(events, "git_commit"),
   subAgentSpawns |-> OfType(events, "sub_agent_spawn"),
   durationMinutes |->
     IF Len(events) >= 2
        /\ events[1].tsValid /\ events[Len(events)].tsValid
     THEN events[Len(events)].ts - events[1].ts
     ELSE 0]

hasFileRef(e) == e.fileRef

\* ------------------------------------------------------------------------
\* Scoring functions.  A CategoryScore is [name, score, grade, evidence];
\* evidence is the template text with the interpolated numbers (args) and
\* nan = TRUE when an interpolated number renders as "NaN".  The optional
\* good/bad example lists are not represented.
\* ------------------------------------------------------------------------
Evidence(text, args) == [text |-> text, args |-> args, nan |-> FALSE]

Category(name, score, grade, evidence) ==
  [name |-> name, score |-> score, grade |-> grade, evidence |-> evidence]

\* flatten one derived view over all sessions, in session order
RECURSIVE AllOf(_, _)
AllOf(ss, view) ==
  IF ss = <<>> THEN <<>> ELSE ss[1][view] \o AllOf(Tail(ss), view)

scorePlans(ss) ==
  IF Len(ss) = 0
  THEN Category("Plans", 75, "B", Evidence("No sessions to analyze", <<>>))
  ELSE
    LET hasPlanning(s) ==
          Some(Slice(s.userMessages, 0, 3),
               LAMBDA m : m.len > 100 /\ hasFileRef(m))
        planned == Count(ss, hasPlanning)
        score == clamp(pct(planned, Len(ss)), 1)
    IN Category("Plans", score, letterGrade(score),
         Evidence("sessions began with file-specific planning prompts",
                  <<planned, Len(ss)>>))

scoreClarification(ss) ==
  LET msgs == AllOf(ss, "userMessages")
      total == Len(msgs)
      specific == Count(msgs, hasFileRef)
      score == clamp(pct(specific, total), 1)
  IN Category("Clarification", score, letterGrade(score),
       Evidence("user prompts contained file paths or specific identifiers",
                <<specific, total>>))

scoreDelegation(ss) ==
  LET spawns == AllOf(ss, "subAgentSpawns")
      total == Len(spawns)
      quality == Count(spawns, LAMBDA e : e.len > 200)
      score == clamp(pct(quality, total), 1)
  IN IF total = 0
     THEN Category("Delegation", 75, "B",
            Evidence("No sub-agent spawns detected. Default score.", <<>>))
     ELSE Category("Delegation", score, letterGrade(score),
            Evidence("sub-agent tasks had detailed descriptions",
                     <<quality, total>>))

\* the type of the closest earlier user_prompt/assistant_response of
\* events[i], "" when there is none
RECURSIVE PrevTurnType(_, _)
PrevTurnType(events, i) ==
  IF i <= 1 THEN ""
  ELSE IF events[i - 1].type \in {"assistant_response", "user_prompt"}
       THEN events[i - 1].type
       ELSE PrevTurnType(events, i - 1)

scoreFollowUpSpecificity(ss) ==
  LET FollowUpIdx(s) ==
        {i \in 1..Len(s.events) :
           /\ s.events[i].type = "user_prompt"
           /\ PrevTurnType(s.events, i) = "assistant_response"}
      SpecificIdx(s) ==
        {i \in FollowUpIdx(s) :
           hasFileRef(s.events[i]) \/ s.events[i].len >= 50}
      followUps ==
        SumSeq([k \in 1..Len(ss) |-> Cardinality(FollowUpIdx(ss[k]))])
      specific ==
        SumSeq([k \in 1..Len(ss) |-> Cardinality(SpecificIdx(ss[k]))])
      score == clamp(pct(specific, followUps), 1)
  IN Category("Follow-up Specificity", score, letterGrade(score),
       Evidence("follow-up prompts had specific file references or detail",
                <<specific, followUps>>))

BloatedCalls == 200

\* the step function of scoreTokenEfficiency on ratio = calls/files; with
\* files = 0 (and then calls = 0) the ratio is NaN and every comparison
\* with it is false
TokenStep(calls, files) ==
  IF files # 0 /\ calls <= 5 * files THEN 100
  ELSE IF files # 0 /\ calls <= 10 * files THEN 90
  ELSE IF files # 0 /\ calls <= 20 * files THEN 75
  ELSE IF files # 0 /\ calls <= 40 * files THEN 60
  ELSE 40

scoreTokenEfficiency(ss) ==
  LET Files(s) ==
        {s.toolCalls[k].file : k \in {j \in 1..Len(s.toolCalls) :
                                        s.toolCalls[j].file # ""}}
      FilesOr1(s) ==
        IF Cardinality(Files(s)) = 0 THEN 1 ELSE Cardinality(Files(s))
      totalCalls == SumSeq([k \in 1..Len(ss) |-> Len(ss[k].toolCalls)])
      totalFiles == SumSeq([k \in 1..Len(ss) |-> FilesOr1(ss[k])])
      step == TokenStep(totalCalls, totalFiles)
      bloated == Count(ss, LAMBDA s : Len(s.toolCalls) > BloatedCalls)
      score == IF bloated > 0 THEN clamp(step - bloated * 10, 1) ELSE step
  IN Category("Token Efficiency", clamp(score, 1),
       letterGrade(clamp(score, 1)),
       [text |-> "tool calls across unique files (ratio). session(s) exceeded 200 tool calls",
        args |-> <<totalCalls, totalFiles, bloated>>,
        nan |-> (totalFiles = 0)])

\* topic switches within one list of user messages, scanning with lastArea
RECURSIVE Switches(_, _)
Switches(msgs, lastArea) ==
  IF msgs = <<>> THEN 0
  ELSE LET area == msgs[1].area
       IN (IF area # "" /\ lastArea # "" /\ area # lastArea THEN 1 ELSE 0)
          + Switches(Tail(msgs), IF area # "" THEN area ELSE lastArea)

scoreSequencing(ss) ==
  LET totalSwitches ==
        SumSeq([k \in 1..Len(ss) |-> Switches(ss[k].userMessages, "")])
      totalPrompts == SumSeq([k \in 1..Len(ss) |-> Len(ss[k].userMessages)])
      \* switchRate = rn/rd
      rn == IF totalPrompts > 0 THEN totalSwitches ELSE 0
      rd == IF totalPrompts > 0 THEN totalPrompts ELSE 1
      score == IF 100 * rn <= 5 * rd THEN 100
               ELSE IF 10 * rn <= rd THEN 90
               ELSE IF 10 * rn <= 2 * rd THEN 75
               ELSE IF 100 * rn <= 35 * rd THEN 60
               ELSE 45
  IN Category("Sequencing", clamp(score, 1), letterGrade(clamp(score, 1)),
       Evidence("topic switches across prompts (switch rate)",
                <<totalSwitches, totalPrompts>>))

CompactionWindow == 10

\* a variant whose window reaches one event further back
scoreCompactionManagement_wide(ss) ==
  LET CompIdx(s) ==
        {i \in 1..Len(s.events) : s.events[i].type = "compaction"}
      Covered(s) ==
        {i \in CompIdx(s) :
           Some(Slice(s.events, Max(0, (i - 1) - CompactionWindow - 1), i - 1),
                LAMBDA e : e.type = "git_commit")}
      totalCompactions ==
        SumSeq([k \in 1..Len(ss) |-> Cardinality(CompIdx(ss[k]))])
      covered == SumSeq([k \in 1..Len(ss) |-> Cardinality(Covered(ss[k]))])
      score == clamp(pct(covered, totalCompactions), 1)
  IN IF totalCompactions = 0
     THEN Category("Compaction Management", 100, "A+",
            Evidence("No compactions needed", <<>>))
     ELSE Category("Compaction Management", score, letterGrade(score),
            Evidence("compactions were preceded by a commit within 10 messages",
                     <<covered, totalCompactions>>))

scoreCompactionManagement(ss) ==
  LET CompIdx(s) ==
        {i \in 1..Len(s.events) : s.events[i].type = "compaction"}
      \* events.slice(max(0, cIdx - 10), cIdx) with cIdx = i - 1
      Covered(s) ==
        {i \in CompIdx(s) :
           Some(Slice(s.events, Max(0, (i - 1) - CompactionWindow), i - 1),
                LAMBDA e : e.type = "git_commit")}
      totalCompactions ==
        SumSeq([k \in 1..Len(ss) |-> Cardinality(CompIdx(ss[k]))])
      covered == SumSeq([k \in 1..Len(ss) |-> Cardinality(Covered(ss[k]))])
      score == clamp(pct(covered, totalCompactions), 1)
  IN IF totalCompactions = 0
     THEN Category("Compaction Management", 100, "A+",
            Evidence("No compactions needed", <<>>))
     ELSE Category("Compaction Management", score, letterGrade(score),
            Evidence("compactions were preceded by a commit within 10 messages",
                     <<covered, totalCompactions>>))

\* contribution of one session to `good`, in halves
LifecycleHalves(s) ==
  LET d == s.durationMinutes
      c == Len(s.commits)
  IN IF d <= 0 THEN 2
     ELSE IF d > 180 /\ c = 0 THEN 0
     ELSE \* commitInterval = d / c, or d when there are no commits
          LET n == IF c > 0 THEN c ELSE 1
          IN IF d <= 30 * n THEN 2
             ELSE IF d <= 60 * n THEN 1
             ELSE 0

scoreSessionLifecycle(ss) ==
  IF Len(ss) = 0
  THEN Category("Session Lifecycle", 75, "B", Evidence("No sessions.", <<>>))
  ELSE
    LET good2 == SumSeq([k \in 1..Len(ss) |-> LifecycleHalves(ss[k])])
        good == MathRound(good2, 2)
        score == clamp(pct(good, Len(ss)), 1)
    IN Category("Session Lifecycle", score, letterGrade(score),
         Evidence("sessions had healthy commit frequency",
                  <<good, Len(ss)>>))

RecoveryWindow == 2

\* a variant that clamps only once, after the bonus has been added
scoreErrorRecovery_once(ss) ==
  LET CorrIdx(s) ==
        {i \in 1..Len(s.events) : s.events[i].type = "correction"}
      Fast(s) ==
        {i \in CorrIdx(s) :
           Some(Slice(s.events, i, i + RecoveryWindow),
                LAMBDA e : e.type \in {"tool_call", "assistant_response"})}
      totalMessages == SumSeq([k \in 1..Len(ss) |-> Len(ss[k].events)])
      totalCorrections ==
        SumSeq([k \in 1..Len(ss) |-> Cardinality(CorrIdx(ss[k]))])
      fastRecoveries ==
        SumSeq([k \in 1..Len(ss) |-> Cardinality(Fast(ss[k]))])
      rn == IF totalMessages > 0 THEN totalCorrections ELSE 0
      rd == IF totalMessages > 0 THEN totalMessages ELSE 1
      score == clamp(5 * (100 * rd - 500 * rn)
                       + rd * pct(fastRecoveries, totalCorrections), 5 * rd)
  IN IF totalCorrections = 0
     THEN Category("Error Recovery", 95, "A",
            Evidence("No corrections needed.", <<>>))
     ELSE Category("Error Recovery", score, letterGrade(score),
            Evidence("corrections (% of messages). recovered within 2 messages",
                     <<totalCorrections, fastRecoveries>>))

scoreErrorRecovery(ss) ==
  LET CorrIdx(s) ==
        {i \in 1..Len(s.events) : s.events[i].type = "correction"}
      \* events.slice(cIdx + 1, cIdx + 3) with cIdx = i - 1
      Fast(s) ==
        {i \in CorrIdx(s) :
           Some(Slice(s.events, i, i + RecoveryWindow),
                LAMBDA e : e.type \in {"tool_call", "assistant_response"})}
      totalMessages == SumSeq([k \in 1..Len(ss) |-> Len(ss[k].events)])
      totalCorrections ==
        SumSeq([k \in 1..Len(ss) |-> Cardinality(CorrIdx(ss[k]))])
      fastRecoveries ==
        SumSeq([k \in 1..Len(ss) |-> Cardinality(Fast(ss[k]))])
      \* correctionRate = rn/rd
      rn == IF totalMessages > 0 THEN totalCorrections ELSE 0
      rd == IF totalMessages > 0 THEN totalMessages ELSE 1
      base == clamp(100 * rd - 500 * rn, rd)
      \* recoveryBonus = pct(...) * 0.2
      score == clamp(5 * base + pct(fastRecoveries, totalCorrections), 5)
  IN IF totalCorrections = 0
     THEN Category("Error Recovery", 95, "A",
            Evidence("No corrections needed.", <<>>))
     ELSE Category("Error Recovery", score, letterGrade(score),
            Evidence("corrections (% of messages). recovered within 2 messages",
                     <<totalCorrections, fastRecoveries>>))

scoreWorkspaceHygiene(ss) ==
  LET bonus == Count(ss, LAMBDA s : Some(s.events, LAMBDA e : e.claude))
      score == clamp(75 + (IF bonus > 0 THEN Min(bonus * 5, 20) ELSE 0), 1)
  IN Category("Workspace Hygiene", score, letterGrade(score),
       Evidence("Default baseline 75. session(s) referenced .claude/ workspace docs",
                <<bonus>>))

scoreCrossSessionContinuity(ss) ==
  IF Len(ss) = 0
  THEN Category("Cross-Session Continuity", 75, "B",
         Evidence("No sessions.", <<>>))
  ELSE
    LET good == Count(ss, LAMBDA s :
                  Some(Slice(s.toolCalls, 0, 3), LAMBDA tc : tc.ctx))
        score == clamp(pct(good, Len(ss)), 1)
    IN Category("Cross-Session Continuity", score, letterGrade(score),
         Evidence("sessions started by reading project context docs",
                  <<good, Len(ss)>>))

scoreVerification(ss) ==
  IF Len(ss) = 0
  THEN Category("Verification", 75, "B", Evidence("No sessions.", <<>>))
  ELSE
    LET \* events.slice(max(0, floor(totalEvents * 0.9)))
        tail(s) == Slice(s.events, Max(0, (9 * Len(s.events)) \div 10),
                         Len(s.events))
        verified == Count(ss, LAMBDA s :
                      Some(tail(s), LAMBDA e : e.type = "tool_call" /\ e.verif))
        score == clamp(pct(verified, Len(ss)), 1)
    IN Category("Verification", score, letterGrade(score),
         Evidence("sessions ran tests/builds in the final 10% of events",
                  <<verified, Len(ss)>>))

\* ------------------------------------------------------------------------
\* Main scoring
\* ------------------------------------------------------------------------
\* an unstable variant: equal scores end up in reverse order
RECURSIVE InsertByScore_unstable(_, _)
InsertByScore_unstable(sorted, c) ==
  IF sorted = <<>> THEN <<c>>
  ELSE IF sorted[1].score > c.score
       THEN <<sorted[1]>> \o InsertByScore_unstable(Tail(sorted), c)
       ELSE <<c>> \o sorted

\* [...categories].sort((a, b) => b.score - a.score): a stable sort by
\* descending score, as insertion of the elements in their original order
RECURSIVE InsertByScore(_, _)
InsertByScore(sorted, c) ==
  IF sorted = <<>> THEN <<c>>
  ELSE IF sorted[1].score >= c.score
       THEN <<sorted[1]>> \o InsertByScore(Tail(sorted), c)
       ELSE <<c>> \o sorted

RECURSIVE SortByScore(_)
SortByScore(cats) ==
  IF cats = <<>> THEN <<>>
  ELSE InsertByScore(SortByScore(SubSeq(cats, 1, Len(cats) - 1)),
                     cats[Len(cats)])

\* a variant that truncates the mean instead of rounding it
Overall_floor(categories) ==
  clamp(SumSeq([k \in 1..Len(categories) |-> categories[k].score])
          \div Len(categories), 1)

\* clamp(Math.round(sum of scores / categories.length))
Overall(categories) ==
  clamp(MathRound(SumSeq([k \in 1..Len(categories) |-> categories[k].score]),
                  Len(categories)), 1)

\* the Scorecard; project, period and date are passed through unchanged
\* and are not represented
computeScorecard(ss) ==
  LET categories ==
        << scorePlans(ss), scoreClarification(ss), scoreDelegation(ss),
           scoreFollowUpSpecificity(ss), scoreTokenEfficiency(ss),
           scoreSequencing(ss), scoreCompactionManagement(ss),
           scoreSessionLifecycle(ss), scoreErrorRecovery(ss),
           scoreWorkspaceHygiene(ss), scoreCrossSessionContinuity(ss),
           scoreVerification(ss) >>
      overall == Overall(categories)
      sorted == SortByScore(categories)
  IN [overall |-> overall,
      overallGrade |-> letterGrade(overall),
      categories |-> categories,
      highlights |-> [best |-> sorted[1], worst |-> sorted[Len(sorted)]]]

\* ------------------------------------------------------------------------
\* Scorecard specification: the session collection is the input, drawn
\* from all collections within the bounds; ComputeScorecard applies the
\* function once
\* ------------------------------------------------------------------------
NoCard == [overall |-> 0, overallGrade |-> "", categories |-> <<>>]

\* evs cut into consecutive non-empty pieces after the positions in cuts
SplitAt(evs, cuts) ==
  LET ends == Ascending(cuts \cup {Len(evs)})
  IN IF evs = <<>> THEN <<>>
     ELSE [k \in 1..Len(ends) |->
             SubSeq(evs, IF k = 1 THEN 1 ELSE ends[k - 1] + 1, ends[k])]

\* loadSessions: every session file that yields at least one event becomes
\* classifyEvents(events)
loadSessions(evs, cuts) ==
  LET files == SplitAt(evs, cuts)
  IN [k \in 1..Len(files) |-> classifyEvents(files[k])]

\* the inputs are all collections of non-empty sessions with at most
\* MaxEvents events in total
InitScore ==
  /\ \E evs \in SeqsUpTo(Palette, MaxEvents) :
       \E cuts \in SUBSET (1..(Len(evs) - 1)) :
          sessions = loadSessions(evs, cuts)
  /\ card = NoCard
  /\ log = <<>>
  /\ store = [exists |-> FALSE]
  /\ ret = [op |-> "none", seen |-> 0]

ComputeScorecard ==
  /\ card = NoCard
  /\ card' = computeScorecard(sessions)
  /\ UNCHANGED <<sessions, log, store, ret>>

NextScore == ComputeScorecard

SpecScore == InitScore /\ [][NextScore]_vars

\* ------------------------------------------------------------------------
\* Long sessions.  The thresholds of the scoring functions (ratios of 5 to
\* 40 tool calls per file, more than 200 tool calls in a session, a window
\* of 10 events before a compaction) need sessions of many events; these
\* are built from runs of one repeated event.
\* ------------------------------------------------------------------------
MaxLongSessions == 2

MaxCopies == 5

Repeat(e, n) == [k \in 1..n |-> e]

\* a tool call whose content names file as its file_path ("" for none)
ToolCallOn(file) ==
  Ev("tool_call", 40, file # "", "", file, FALSE, FALSE, FALSE, TRUE, 45)

Filler == Ev("assistant_response", 60, FALSE, "", "", FALSE, FALSE, FALSE, TRUE, 10)

Commit == Ev("git_commit", 30, FALSE, "", "", FALSE, FALSE, FALSE, TRUE, 5)

Compaction == Ev("compaction", 0, FALSE, "", "", FALSE, FALSE, FALSE, TRUE, 90)

\* numbers of tool calls on either side of each threshold of the step
\* function (for one file) and of the 200-call limit
RunLengths == {5, 6, 10, 11, 20, 21, 40, 41, 201}

ToolRuns ==
  {Repeat(ToolCallOn("a.ts"), n) : n \in RunLengths}
    \cup {Repeat(ToolCallOn(""), 6),
          Repeat(ToolCallOn("a.ts"), 5) \o Repeat(ToolCallOn("b.ts"), 6)}

\* a commit 10 and 11 events before a compaction, a commit after it, and
\* two compactions in a row behind one commit
CompactionRuns ==
  { <<Commit>> \o Repeat(Filler, 9) \o <<Compaction>>,
    <<Commit>> \o Repeat(Filler, 10) \o <<Compaction>>,
    <<Compaction, Commit>>,
    <<Commit>> \o Repeat(Filler, 8) \o <<Compaction, Compaction, Compaction>> }

LongFiles == ToolRuns \cup CompactionRuns

\* copies session files of each of the given event lists, in order
RECURSIVE Copied(_, _)
Copied(files, copies) ==
  IF files = <<>> THEN <<>>
  ELSE Repeat(classifyEvents(files[1]), copies) \o Copied(Tail(files), copies)

InitLong ==
  /\ \E files \in SeqsUpTo(LongFiles, MaxLongSessions) :
       \E copies \in 1..MaxCopies :
          sessions = Copied(files, copies)
  /\ card = NoCard
  /\ log = <<>>
  /\ store = [exists |-> FALSE]
  /\ ret = [op |-> "none", seen |-> 0]

\* the scorecard on the short collections and on the long ones
SpecLong == (InitScore \/ InitLong) /\ [][NextScore]_vars

\* ------------------------------------------------------------------------
\* The session assembler on its own: ret holds the event list given to
\* classifyEvents and the session it returned
\* ------------------------------------------------------------------------
\* an event of a type that no view collects
OtherEvent == Ev("error", 5, FALSE, "", "", FALSE, FALSE, FALSE, TRUE, 60)

InitAssemble ==
  /\ sessions = <<>>
  /\ card = NoCard
  /\ log = <<>>
  /\ store = [exists |-> FALSE]
  /\ ret = [op |-> "none", seen |-> 0]

ClassifyEvents ==
  \E events \in SeqsUpTo(Palette \cup {OtherEvent}, MaxEvents) :
    /\ ret.op = "none"
    /\ ret' = [op |-> "classifyEvents", seen |-> 0,
               events |-> events, session |-> classifyEvents(events)]
    /\ UNCHANGED <<sessions, card, log, store>>

NextAssemble == ClassifyEvents

SpecAssemble == InitAssemble /\ [][NextAssemble]_vars

\* ========================================================================
\* Correction pattern learner (src/lib/patterns.ts) and the correction log
\* handlers (mcp-server/src/index.js)
\* ========================================================================
\* Text is a sequence of one-character strings.
LowerLetters == <<"a", "b", "c", "d", "e", "f", "g", "h", "i", "j", "k", "l",
                  "m", "n", "o", "p", "q", "r", "s", "t", "u", "v", "w", "x",
                  "y", "z">>

UpperLetters == <<"A", "B", "C", "D", "E", "F", "G", "H", "I", "J", "K", "L",
                  "M", "N", "O", "P", "Q", "R", "S", "T", "U", "V", "W", "X",
                  "Y", "Z">>

Digits == {"0", "1", "2", "3", "4", "5", "6", "7", "8", "9"}

Range(f) == {f[x] : x \in DOMAIN f}

\* String.prototype.toLowerCase
UpperSet == Range(UpperLetters)

toLowerChar(c) ==
  IF c \in UpperSet
  THEN LowerLetters[CHOOSE k \in 1..26 : UpperLetters[k] = c]
  ELSE c

toLowerCase(text) == [k \in 1..Len(text) |-> toLowerChar(text[k])]

\* the characters kept by /[^a-zA-Z0-9_\-/.]/g
KeptChars ==
  Range(LowerLetters) \cup Range(UpperLetters) \cup Digits
    \cup {"_", "-", "/", "."}

\* text.replace(/[^a-zA-Z0-9_\-/.]/g, " ")
StripChars(text) ==
  [k \in 1..Len(text) |-> IF text[k] \in KeptChars THEN text[k] ELSE " "]

\* split(/\s+/): the maximal runs of non-blank characters, in order (the
\* empty strings split() gives at the ends are dropped by the length
\* filter and are not produced here)
\* cur holds the characters of a word begun before text
SplitBlank(text, cur) ==
  LET t == cur \o text
      n == Len(t)
      starts == {k \in 1..n : t[k] # " " /\ (k = 1 \/ t[k - 1] = " ")}
      first == Ascending(starts)
      endOf(k) == CHOOSE e \in k..n :
                    /\ e = n \/ t[e + 1] = " "
                    /\ \A j \in k..e : t[j] # " "
  IN [i \in 1..Len(first) |-> SubSeq(t, first[i], endOf(first[i]))]

\* [...new Set(words)]: the first occurrence of each element, in order
Dedupe(s) ==
  LET firsts == {k \in 1..Len(s) : \A j \in 1..(k - 1) : s[j] # s[k]}
      order == Ascending(firsts)
  IN [i \in 1..Len(order) |-> s[order[i]]]

stopWords ==
  { <<"t", "h", "e">>, <<"a", "n", "d">>, <<"t", "h", "a", "t">>,
    <<"t", "h", "i", "s">>, <<"w", "i", "t", "h">>, <<"f", "o", "r">>,
    <<"n", "o", "t">>, <<"b", "u", "t">>, <<"w", "a", "s">>,
    <<"a", "r", "e">>, <<"y", "o", "u">>, <<"y", "o", "u", "r">>,
    <<"h", "a", "v", "e">>, <<"h", "a", "s">>, <<"h", "a", "d">>,
    <<"b", "e", "e", "n">>, <<"w", "e", "r", "e">>, <<"w", "i", "l", "l">>,
    <<"w", "o", "u", "l", "d">>, <<"c", "o", "u", "l", "d">>,
    <<"s", "h", "o", "u", "l", "d">>, <<"c", "a", "n">>, <<"d", "i", "d">>,
    <<"d", "o", "e", "s">>, <<"d", "o", "n">>, <<"i", "s", "n">>,
    <<"i", "s", "n", "'", "t">>, <<"d", "o", "n", "'", "t">>,
    <<"u", "s", "e">>, <<"u", "s", "e", "d">>, <<"u", "s", "i", "n", "g">>,
    <<"f", "r", "o", "m">>, <<"i", "n", "t", "o">>,
    <<"a", "b", "o", "u", "t">>, <<"j", "u", "s", "t">>,
    <<"w", "r", "o", "n", "g">>, <<"a", "g", "a", "i", "n">>,
    <<"s", "a", "i", "d">>, <<"i", "n", "s", "t", "e", "a", "d">>,
    <<"m", "e", "a", "n", "t">>, <<"w", "a", "n", "t">>,
    <<"w", "a", "n", "t", "e", "d">>, <<"n", "e", "e", "d">>,
    <<"l", "i", "k", "e">> }

MinKeywordLen == 3

extractKeywords(text) ==
  LET words == SplitBlank(StripChars(text), <<>>)
      long == SelectSeq(words, LAMBDA w : Len(w) >= MinKeywordLen)
      lower == [k \in 1..Len(long) |-> toLowerCase(long[k])]
      kept == SelectSeq(lower, LAMBDA w : w \notin stopWords)
  IN Dedupe(kept)

\* shared / Math.min(a.length, b.length) as the rational <<n, d>>; <<0, 1>>
\* when either list is empty
keywordOverlap(a, b) ==
  IF Len(a) = 0 \/ Len(b) = 0 THEN <<0, 1>>
  ELSE <<Cardinality({k \in 1..Len(a) : a[k] \in Range(b)}),
         Min(Len(a), Len(b))>>

\* keywordOverlap(a, b) >= 0.3
Similar(a, b) ==
  LET r == keywordOverlap(a, b) IN 10 * r[1] >= 3 * r[2]

\* readLog("corrections.jsonl"): the parsed entries of the lines that
\* parse, in file order
readLog(lines) ==
  LET good == SelectSeq(lines, LAMBDA l : l.json)
  IN [k \in 1..Len(good) |-> good[k].value]

\* c.field || ""
FieldOrEmpty(c, field) == IF field \in DOMAIN c THEN c[field] ELSE <<>>

\* `${c.user_said || ""} ${c.wrong_action || ""} ${c.root_cause || ""}`
EntryText(c) ==
  FieldOrEmpty(c, "user_said") \o <<" ">> \o FieldOrEmpty(c, "wrong_action")
    \o <<" ">> \o FieldOrEmpty(c, "root_cause")

\* the keyword index built per correction; timestamp is <<t>>, or <<>> when
\* the entry has none
EntryIndex(corrections) ==
  [k \in 1..Len(corrections) |->
     [text |-> EntryText(corrections[k]),
      keywords |-> extractKeywords(EntryText(corrections[k])),
      timestamp |-> IF "timestamp" \in DOMAIN corrections[k]
                    THEN <<corrections[k].timestamp>> ELSE <<>>,
      userSaid |-> FieldOrEmpty(corrections[k], "user_said")]]

MinGroupSize == 2

\* a variant that forgets to mark absorbed corrections as used
RECURSIVE GreedyGroups_reuse(_, _, _, _)
GreedyGroups_reuse(entries, i, used, groups) ==
  IF i > Len(entries) THEN groups
  ELSE IF i \in used THEN GreedyGroups_reuse(entries, i + 1, used, groups)
  ELSE
    LET absorbed == {j \in (i + 1)..Len(entries) :
                       /\ j \notin used
                       /\ Similar(entries[i].keywords, entries[j].keywords)}
        group == <<i>> \o Ascending(absorbed)
    IN GreedyGroups_reuse(entries, i + 1, used \cup {i},
         IF Len(group) >= MinGroupSize THEN Append(groups, group) ELSE groups)

\* a variant that also keeps clusters of one correction
RECURSIVE GreedyGroups_singletons(_, _, _, _)
GreedyGroups_singletons(entries, i, used, groups) ==
  IF i > Len(entries) THEN groups
  ELSE IF i \in used
       THEN GreedyGroups_singletons(entries, i + 1, used, groups)
  ELSE
    LET absorbed == {j \in (i + 1)..Len(entries) :
                       /\ j \notin used
                       /\ Similar(entries[i].keywords, entries[j].keywords)}
        group == <<i>> \o Ascending(absorbed)
    IN GreedyGroups_singletons(entries, i + 1, used \cup {i} \cup absorbed,
         Append(groups, group))

\* a variant that compares a correction with every member absorbed so far
RECURSIVE Absorb_any(_, _, _, _)
Absorb_any(entries, j, used, group) ==
  IF j > Len(entries) THEN group
  ELSE IF /\ j \notin used
          /\ \E k \in 1..Len(group) :
                Similar(entries[group[k]].keywords, entries[j].keywords)
       THEN Absorb_any(entries, j + 1, used, Append(group, j))
  ELSE Absorb_any(entries, j + 1, used, group)

RECURSIVE GreedyGroups_chained(_, _, _, _)
GreedyGroups_chained(entries, i, used, groups) ==
  IF i > Len(entries) THEN groups
  ELSE IF i \in used THEN GreedyGroups_chained(entries, i + 1, used, groups)
  ELSE
    LET group == Absorb_any(entries, i + 1, used, <<i>>)
    IN GreedyGroups_chained(entries, i + 1, used \cup Range(group),
         IF Len(group) >= MinGroupSize THEN Append(groups, group) ELSE groups)

\* the greedy clustering loop: from index i on, with the set of used
\* indices and the groups found so far; every later unused j is compared
\* with the seed i only
RECURSIVE GreedyGroups(_, _, _, _)
GreedyGroups(entries, i, used, groups) ==
  IF i > Len(entries) THEN groups
  ELSE IF i \in used THEN GreedyGroups(entries, i + 1, used, groups)
  ELSE
    LET absorbed == {j \in (i + 1)..Len(entries) :
                       /\ j \notin used
                       /\ Similar(entries[i].keywords, entries[j].keywords)}
        group == <<i>> \o Ascending(absorbed)
    IN GreedyGroups(entries, i + 1, used \cup {i} \cup absorbed,
         IF Len(group) >= MinGroupSize THEN Append(groups, group) ELSE groups)

\* the groups (lists of 1-based indices into the entries) of a log
Groups(entries) == GreedyGroups(entries, 1, {}, <<>>)

\* Array.prototype.sort((a, b) => key(b) - key(a)): the stable sort of s by
\* descending key, keys[k] being the key of s[k]
SortDesc(s, keys) ==
  LET n == Len(s)
      rank(i) == 1 + Cardinality({j \in 1..n :
                        keys[j] > keys[i] \/ (keys[j] = keys[i] /\ j < i)})
  IN [r \in 1..n |-> s[CHOOSE i \in 1..n : rank(i) = r]]

\* kwFreq is a plain object ({}): a keyword that names a property inherited
\* from Object.prototype is read as that property by kwFreq[kw] || 0.
\* "constructor" reads a function, so its count becomes a string and every
\* b[1] - a[1] with it is NaN; "__proto__" reads the prototype and the
\* assignment of the resulting string to kwFreq.__proto__ is dropped, so it
\* never becomes a key.  (Lowercased keywords name no other property.)
InheritedKeys == { <<"c", "o", "n", "s", "t", "r", "u", "c", "t", "o", "r">> }

ProtoKey == <<"_", "_", "p", "r", "o", "t", "o", "_", "_">>

\* the count of a key of kwFreq whose value is not a number
NaNCount == 0

\* SortCompare with (a, b) => b[1] - a[1]: x and y are the counts of a and
\* b; a NaN result is taken as +0
SortCompare(x, y) == IF x = NaNCount \/ y = NaNCount THEN 0 ELSE y - x

\* Array.prototype.sort as Node runs it on fewer than 64 elements: the
\* leading run is counted (and reversed when it is strictly descending),
\* the other elements are inserted by binary search.  ix is the list of
\* the positions of the elements, keys[i] the count of element i;
\* positions inside the list are counted from 0 as in the engine.
RECURSIVE CountRun(_, _, _, _)
CountRun(ix, keys, isDescending, idx) ==
  IF idx >= Len(ix) THEN Len(ix)
  ELSE LET order == SortCompare(keys[ix[idx + 1]], keys[ix[idx]])
       IN IF (isDescending /\ order >= 0) \/ (~isDescending /\ order < 0)
          THEN idx
          ELSE CountRun(ix, keys, isDescending, idx + 1)

RECURSIVE BinarySearch(_, _, _, _, _)
BinarySearch(ix, keys, pivot, left, right) ==
  IF left >= right THEN left
  ELSE LET mid == left + ((right - left) \div 2)
       IN IF SortCompare(keys[pivot], keys[ix[mid + 1]]) < 0
          THEN BinarySearch(ix, keys, pivot, left, mid)
          ELSE BinarySearch(ix, keys, pivot, mid + 1, right)

RECURSIVE BinaryInsertionSort(_, _, _)
BinaryInsertionSort(ix, keys, start) ==
  IF start >= Len(ix) THEN ix
  ELSE LET pivot == ix[start + 1]
           left == BinarySearch(ix, keys, pivot, 0, start)
           moved == SubSeq(ix, 1, left) \o <<pivot>>
                      \o SubSeq(ix, left + 1, start)
                      \o SubSeq(ix, start + 2, Len(ix))
       IN BinaryInsertionSort(moved, keys, start + 1)

ArraySort(s, keys) ==
  LET n == Len(s)
  IN IF n < 2 THEN s
     ELSE
       LET ix == [k \in 1..n |-> k]
           isDescending == SortCompare(keys[2], keys[1]) < 0
           run == CountRun(ix, keys, isDescending, 2)
           made == IF isDescending
                   THEN [k \in 1..n |-> IF k <= run THEN run + 1 - k ELSE k]
                   ELSE ix
           sorted == BinaryInsertionSort(made, keys, run)
       IN [k \in 1..n |-> s[sorted[k]]]

\* Object.entries(kwFreq).sort((a, b) => b[1] - a[1]); with numbers only the
\* comparator is consistent and the result is that of any stable sort
SortEntries(s, keys) ==
  IF NaNCount \in Range(keys) THEN ArraySort(s, keys) ELSE SortDesc(s, keys)

RECURSIVE Flatten(_)
Flatten(ss) == IF ss = <<>> THEN <<>> ELSE ss[1] \o Flatten(Tail(ss))

TopKeywords == 8

MaxExamples == 3

ContextChars == 300

\* String.prototype.trim for blanks
RECURSIVE Trim(_)
Trim(text) ==
  IF text = <<>> THEN <<>>
  ELSE IF text[1] = " " THEN Trim(Tail(text))
  ELSE IF text[Len(text)] = " " THEN Trim(SubSeq(text, 1, Len(text) - 1))
  ELSE text

\* the CorrectionPattern of the idx-th group; now is the current time, used
\* for lastSeen when no member has a timestamp.  pattern (the description)
\* is the list of the first four top keywords.  members records the group
\* the pattern was built from; it is not a field of CorrectionPattern.
PatternOf(entries, group, idx, now) ==
  LET groupEntries == [k \in 1..Len(group) |-> entries[group[k]]]
      \* keys of kwFreq in insertion order, and their counts
      allKw == Flatten([k \in 1..Len(groupEntries) |-> groupEntries[k].keywords])
      keys == SelectSeq(Dedupe(allKw), LAMBDA kw : kw # ProtoKey)
      freq(kw) == IF kw \in InheritedKeys THEN NaNCount
                  ELSE Cardinality({k \in 1..Len(allKw) : allKw[k] = kw})
      topKeywords ==
        Slice(SortEntries(keys, [k \in 1..Len(keys) |-> freq(keys[k])]),
              0, TopKeywords)
      stamps == Range(Flatten([k \in 1..Len(groupEntries) |->
                                 groupEntries[k].timestamp]))
      lastSeen == IF stamps = {} THEN now
                  ELSE CHOOSE t \in stamps : \A u \in stamps : u <= t
      said == [k \in 1..Len(groupEntries) |-> groupEntries[k].userSaid]
      examples == Slice(SelectSeq(said, LAMBDA t : Len(t) > 0), 0, MaxExamples)
      longestEntry ==
        SortDesc(groupEntries, [k \in 1..Len(groupEntries) |->
                                 Len(groupEntries[k].text)])[1]
  IN [id |-> idx,
      members |-> group,
      pattern |-> Slice(topKeywords, 0, 4),
      keywords |-> topKeywords,
      frequency |-> Len(group),
      lastSeen |-> lastSeen,
      context |-> Slice(Trim(longestEntry.text), 0, ContextChars),
      examples |-> examples]

\* a variant that returns the patterns in the order of their clusters
extractPatterns_unsorted(corrections, now) ==
  IF Len(corrections) = 0 THEN <<>>
  ELSE
    LET entries == EntryIndex(corrections)
        groups == Groups(entries)
    IN [k \in 1..Len(groups) |-> PatternOf(entries, groups[k], k, now)]

\* extractPatterns on the parsed corrections
extractPatterns(corrections, now) ==
  IF Len(corrections) = 0 THEN <<>>
  ELSE
    LET entries == EntryIndex(corrections)
        groups == Groups(entries)
        patterns == [k \in 1..Len(groups) |->
                       PatternOf(entries, groups[k], k, now)]
    IN SortDesc(patterns, [k \in 1..Len(patterns) |-> patterns[k].frequency])

\* String.prototype.includes
Includes(text, part) ==
  \E k \in 0..(Len(text) - Len(part)) :
     \A j \in 1..Len(part) : text[k + j] = part[j]

MinHits == 2

\* a variant that is satisfied by a single keyword hit
matchPatterns_one(prompt, patterns) ==
  IF Len(patterns) = 0 THEN <<>>
  ELSE
    LET promptLower == toLowerCase(prompt)
        hits(p) == SelectSeq(p.keywords,
                     LAMBDA kw : Includes(promptLower, toLowerCase(kw)))
    IN SelectSeq(patterns, LAMBDA p : Len(hits(p)) >= 1)

matchPatterns(prompt, patterns) ==
  IF Len(patterns) = 0 THEN <<>>
  ELSE
    LET promptLower == toLowerCase(prompt)
        hits(p) == SelectSeq(p.keywords,
                     LAMBDA kw : Includes(promptLower, toLowerCase(kw)))
    IN SelectSeq(patterns, LAMBDA p : Len(hits(p)) >= MinHits)

\* ------------------------------------------------------------------------
\* State of the correction log and the pattern snapshot
\* ------------------------------------------------------------------------
\* log    the lines of corrections.jsonl: [json |-> TRUE, value |-> entry]
\*        for a line that JSON.parse accepts, [json |-> FALSE] otherwise
\* store  the saved "patterns" state ([exists |-> FALSE] before any save)
\* ret    what the last handler returned; seen (not part of the program's
\*        value) is the number of log lines when it returned
MaxLog == 3

Branch == "main"

Categories == {"vague_prompt", "stale_context", "wrong_assumption",
               "wrong_file", "wrong_scope", "other"}

\* arguments of log_correction
CorrectionInputs ==
  { [what_user_said |-> <<"a", "u", "t", "h", " ", "j", "w", "t", " ", "e", "x", "p", "i", "r", "y">>,
     what_you_did_wrong |-> <<>>,
     root_cause |-> <<>>,
     category |-> "wrong_assumption"],
    [what_user_said |-> <<"T", "h", "e", " ", "J", "W", "T", ",">>,
     what_you_did_wrong |-> <<"a", "u", "t", "h">>,
     root_cause |-> <<"e", "x", "p", "i", "r", "y", " ", "a", "g", "a", "i", "n">>,
     category |-> "vague_prompt"],
    [what_user_said |-> <<>>,
     what_you_did_wrong |-> <<"e", "x", "p", "i", "r", "y", " ", "c", "a", "c", "h", "e">>,
     root_cause |-> <<>>,
     category |-> "stale_context"],
    [what_user_said |-> <<"c", "a", "c", "h", "e", " ", "b", "u", "t", "t", "o", "n", " ", "c",
                         "o", "l", "o", "r">>,
     what_you_did_wrong |-> <<>>,
     root_cause |-> <<>>,
     category |-> "other"] }

\* prompts given to matchPatterns
Instructions ==
  { <<"F", "i", "x", " ", "A", "U", "T", "H", " ", "j", "w", "t">>,
    <<"f", "i", "x", " ", "t", "h", "e", " ", "b", "u", "t", "t", "o", "n", " ", "c", "o", "l", "o", "r">>,
    <<"u", "n", "a", "u", "t", "h", "o", "r", "i", "z", "e", "d">> }

\* an entry written by another writer, without timestamp and category
ForeignEntry == [user_said |-> <<"j", "w", "t", " ", "a", "u", "t", "h">>]

NoStore == [exists |-> FALSE]

NoRet == [op |-> "none", seen |-> 0]

\* JSON.stringify(entry) + "\n" as a line of the file; parsing the line
\* gives the entry back
JsonLine(entry) == [json |-> TRUE, value |-> entry]

GarbageLine == [json |-> FALSE]

\* c.category as an object key
CategoryKey(c) == IF "category" \in DOMAIN c THEN c.category ELSE "undefined"

\* categoryCounts as Object.entries gives it: <<key, count>> pairs in the
\* order in which the keys were first counted
CategoryCounts(corrections) ==
  LET keySeq == [k \in 1..Len(corrections) |-> CategoryKey(corrections[k])]
      keys == Dedupe(keySeq)
  IN [k \in 1..Len(keys) |->
        <<keys[k], Cardinality({j \in 1..Len(keySeq) : keySeq[j] = keys[k]})>>]

\* readFileSync(logFile).trim().split("\n").map(l => JSON.parse(l)) inside
\* try/catch with the initial value []: one line that does not parse makes
\* JSON.parse throw and leaves the list empty
ParseAllOrNone(lines) ==
  IF Len(lines) > 0 /\ \A k \in 1..Len(lines) : lines[k].json
  THEN [k \in 1..Len(lines) |-> lines[k].value]
  ELSE <<>>

\* now() / new Date(): time is measured by the number of lines written to
\* the log so far
Now == Len(log)

InitLog ==
  /\ log = <<>>
  /\ store = NoStore
  /\ ret = NoRet

\* the log_correction tool
LogCorrection ==
  \E inp \in CorrectionInputs :
    /\ Len(log) < MaxLog
    /\ LET entry == [timestamp |-> Now, branch |-> Branch,
                     user_said |-> inp.what_user_said,
                     wrong_action |-> inp.what_you_did_wrong,
                     root_cause |-> inp.root_cause,
                     category |-> inp.category]
           written == Append(log, JsonLine(entry))
           corrections == ParseAllOrNone(written)
           counts == CategoryCounts(corrections)
           sorted == SortDesc(counts, [k \in 1..Len(counts) |-> counts[k][2]])
       IN /\ log' = written
          /\ ret' = [op |-> "log_correction", seen |-> Len(written),
                     total |-> Len(corrections),
                     categoryCounts |-> counts,
                     topCategory |-> Slice(sorted, 0, 1)]
    /\ UNCHANGED <<store, sessions, card>>

\* the session_handoff tool, as far as it reads the correction log
SessionHandoff ==
  \E direction \in {"incoming", "outgoing"} :
    /\ LET corr == ParseAllOrNone(log)
           known == direction = "incoming" /\ Len(log) > 0 /\ Len(corr) > 0
       IN ret' = [op |-> "session_handoff", seen |-> Len(log),
                  direction |-> direction,
                  knownErrorPatterns |-> known,
                  cats |-> IF known THEN CategoryCounts(corr) ELSE <<>>]
    /\ UNCHANGED <<log, store, sessions, card>>

\* savePatterns / loadPatterns on the "patterns" state
savePatterns(patterns, now) ==
  [exists |-> TRUE, patterns |-> patterns, updated |-> now]

loadPatterns(state) == IF state.exists THEN state.patterns ELSE <<>>

\* a variant that returns the new patterns but writes the snapshot only when
\* none exists yet
RefreshPatterns_keep ==
  /\ LET patterns == extractPatterns(readLog(log), Now)
     IN /\ store' = IF store.exists THEN store ELSE savePatterns(patterns, Now)
        /\ ret' = [op |-> "refreshPatterns", seen |-> Len(log),
                   again |-> (ret.op = "refreshPatterns" /\ ret.seen = Len(log)),
                   patterns |-> patterns]
  /\ UNCHANGED <<log, sessions, card>>

\* a variant that adds the new patterns to the saved ones
RefreshPatterns_merge ==
  /\ LET patterns == loadPatterns(store) \o extractPatterns(readLog(log), Now)
     IN /\ store' = savePatterns(patterns, Now)
        /\ ret' = [op |-> "refreshPatterns", seen |-> Len(log),
                   again |-> (ret.op = "refreshPatterns" /\ ret.seen = Len(log)),
                   patterns |-> patterns]
  /\ UNCHANGED <<log, sessions, card>>

\* refreshPatterns(); again (not part of the program's value) records that
\* the previous handler was a refreshPatterns on the same log
RefreshPatterns ==
  /\ LET patterns == extractPatterns(readLog(log), Now)
     IN /\ store' = savePatterns(patterns, Now)
        /\ ret' = [op |-> "refreshPatterns", seen |-> Len(log),
                   again |-> (ret.op = "refreshPatterns" /\ ret.seen = Len(log)),
                   patterns |-> patterns]
  /\ UNCHANGED <<log, sessions, card>>

\* matchPatterns(prompt, loadPatterns())
MatchPatterns ==
  \E prompt \in Instructions :
    /\ ret' = [op |-> "matchPatterns", seen |-> Len(log),
               prompt |-> prompt,
               patterns |-> loadPatterns(store),
               matches |-> matchPatterns(prompt, loadPatterns(store))]
    /\ UNCHANGED <<log, store, sessions, card>>

\* another writer leaves a line in the file that is not JSON
CorruptAppend ==
  /\ Len(log) < MaxLog
  /\ log' = Append(log, GarbageLine)
  /\ UNCHANGED <<store, ret, sessions, card>>

\* another writer appends an entry that lacks fields
ForeignAppend ==
  /\ Len(log) < MaxLog
  /\ log' = Append(log, JsonLine(ForeignEntry))
  /\ UNCHANGED <<store, ret, sessions, card>>

Init ==
  /\ InitLog
  /\ sessions = <<>>
  /\ card = NoCard

\* the pattern learner on the correction log
Next ==
  \/ LogCorrection
  \/ ForeignAppend
  \/ RefreshPatterns
  \/ MatchPatterns

Spec == Init /\ [][Next]_vars

\* the handlers of the MCP server that read the correction log, with lines
\* that do not parse
NextLog ==
  \/ LogCorrection
  \/ SessionHandoff
  \/ CorruptAppend
  \/ ForeignAppend

SpecLog == Init /\ [][NextLog]_vars

\* ------------------------------------------------------------------------
\* Triage classifier (lib/triage.ts, as the decision tree and the
\* configuration reference describe it).  An instruction is a text; a
\* configuration holds the keyword lists of .preflight/triage.yml.
\* ------------------------------------------------------------------------
Levels == {"TRIVIAL", "CLEAR", "AMBIGUOUS", "CROSS_SERVICE", "MULTI_STEP"}

\* the severity order of the levels
Rank(level) ==
  CASE level = "TRIVIAL" -> 0
    [] level = "CLEAR" -> 1
    [] level = "AMBIGUOUS" -> 2
    [] level = "CROSS_SERVICE" -> 3
    [] level = "MULTI_STEP" -> 4

\* the default keyword lists, and a configuration with always_check only
DefaultConfig ==
  [always_check |-> {<<"r", "e", "w", "a", "r", "d", "s">>,
                   <<"p", "e", "r", "m", "i", "s", "s", "i", "o", "n", "s">>,
                   <<"m", "i", "g", "r", "a", "t", "i", "o", "n">>,
                   <<"s", "c", "h", "e", "m", "a">>},
   skip |-> {<<"c", "o", "m", "m", "i", "t">>,
           <<"f", "o", "r", "m", "a", "t">>,
           <<"l", "i", "n", "t">>},
   cross_service_keywords |-> {<<"a", "u", "t", "h">>,
                             <<"n", "o", "t", "i", "f", "i", "c", "a", "t", "i", "o", "n">>,
                             <<"e", "v", "e", "n", "t">>,
                             <<"w", "e", "b", "h", "o", "o", "k">>},
   multi_step |-> {<<" ", "t", "h", "e", "n", " ">>,
                 <<" ", "a", "n", "d", " ">>}]

RewardsConfig ==
  [always_check |-> {<<"r", "e", "w", "a", "r", "d", "s">>},
   skip |-> {},
   cross_service_keywords |-> {},
   multi_step |-> {}]

TriageConfigs == {DefaultConfig, RewardsConfig}

ShortCommands ==
  {<<"c", "o", "m", "m", "i", "t">>,
   <<"p", "u", "s", "h">>,
   <<"r", "u", "n", " ", "t", "e", "s", "t", "s">>,
   <<"f", "i", "x", " ", "t", "h", "e", " ", "t", "e", "s", "t", "s">>}

VaguePronouns == {<<"i", "t">>,
                  <<"t", "h", "e", "m">>,
                  <<"t", "h", "a", "t">>}

ShortLen == 20

BriefLen == 50

\* the instruction contains one of the keywords
ContainsAny(instruction, keywords) ==
  LET lower == toLowerCase(instruction)
  IN \E kw \in keywords : Includes(lower, kw)

\* the instruction refers to a file or path
HasPathRef(instruction) ==
  \/ Includes(instruction, <<"/">>)
  \/ Includes(instruction, <<".", "t", "s">>)

HasVaguePronoun(instruction) ==
  Range(SplitBlank(toLowerCase(instruction), <<>>)) \cap VaguePronouns # {}

TriageInstructions ==
  {<<"f", "i", "x", " ", "t", "h", "e", " ", "t", "e", "s", "t", "s">>,
   <<"c", "o", "m", "m", "i", "t">>,
   <<"a", "d", "d", " ", "r", "e", "w", "a", "r", "d", "s", " ", "t", "i", "e", "r", " ", "v", "a", "l", "i", "d", "a", "t", "i", "o", "n">>,
   <<"c", "o", "m", "m", "i", "t", " ", "r", "e", "w", "a", "r", "d", "s", " ", "s", "c", "h", "e", "m", "a">>,
   <<"f", "i", "x", " ", "t", "h", "e", " ", "l", "o", "g", "i", "n", " ", "b", "u", "g">>,
   <<"f", "i", "x", " ", "t", "h", "e", " ", "a", "u", "t", "h", " ", "b", "u", "g">>,
   <<"r", "e", "n", "a", "m", "e", " ", "u", "s", "e", "r", ".", "t", "s", " ", "a", "n", "d", " ", "t", "h", "e", "n", " ", "u", "p", "d", "a", "t", "e", " ", "a", "l", "l", " ", "i", "m", "p", "o", "r", "t", "s", " ", "o", "f", " ", "i", "t">>,
   <<"f", "i", "x", " ", "n", "u", "l", "l", " ", "c", "h", "e", "c", "k", " ", "i", "n", " ", "s", "r", "c", "/", "u", "s", "e", "r", "/", "j", "w", "t", ".", "t", "s", " ", "l", "i", "n", "e", " ", "4", "2">>,
   <<"u", "p", "d", "a", "t", "e", " ", "s", "r", "c", "/", "u", "s", "e", "r", "/", "j", "w", "t", ".", "t", "s", " ", "s", "o", " ", "t", "h", "a", "t", " ", "e", "m", "p", "t", "y", " ", "t", "o", "k", "e", "n", "s", " ", "a", "r", "e", " ", "r", "e", "j", "e", "c", "t", "e", "d", " ", "e", "a", "r", "l", "y">>,
   <<"c", "o", "m", "m", "i", "t", " ", "j", "w", "t", " ", "e", "x", "p", "i", "r", "y">>,
   <<"h", "a", "n", "d", "l", "e", " ", "j", "w", "t", " ", "e", "x", "p", "i", "r", "y", " ", "i", "n", " ", "s", "r", "c", "/", "u", "s", "e", "r", "/", "s", "e", "s", "s", "i", "o", "n", ".", "t", "s", " ", "o", "n", " ", "r", "e", "f", "r", "e", "s", "h">>,
   <<"l", "i", "n", "t", " ", "r", "e", "w", "a", "r", "d", "s", " ", "t", "h", "e", "n", " ", "f", "o", "r", "m", "a", "t">>}

\* guard i of the decision tree matches the instruction
GuardMatches(i, instruction, config) ==
  CASE i = 1 -> ContainsAny(instruction, config.skip)
    [] i = 2 -> ContainsAny(instruction, config.multi_step)
    [] i = 3 -> ContainsAny(instruction, config.cross_service_keywords)
    [] i = 4 -> ContainsAny(instruction, config.always_check)
    [] i = 5 -> Len(instruction) < ShortLen
                  /\ toLowerCase(instruction) \in ShortCommands
    [] i = 6 -> Len(instruction) < BriefLen /\ ~HasPathRef(instruction)
    [] i = 7 -> HasVaguePronoun(instruction)
    [] i = 8 -> TRUE

\* a variant that tests the length guards in the opposite order
triage_briefFirst(instruction, config) ==
  IF GuardMatches(1, instruction, config) THEN [guard |-> 1, level |-> "TRIVIAL"]
  ELSE IF GuardMatches(2, instruction, config) THEN [guard |-> 2, level |-> "MULTI_STEP"]
  ELSE IF GuardMatches(3, instruction, config) THEN [guard |-> 3, level |-> "CROSS_SERVICE"]
  ELSE IF GuardMatches(4, instruction, config) THEN [guard |-> 4, level |-> "AMBIGUOUS"]
  ELSE IF GuardMatches(6, instruction, config) THEN [guard |-> 6, level |-> "AMBIGUOUS"]
  ELSE IF GuardMatches(5, instruction, config) THEN [guard |-> 5, level |-> "TRIVIAL"]
  ELSE IF GuardMatches(7, instruction, config) THEN [guard |-> 7, level |-> "AMBIGUOUS"]
  ELSE [guard |-> 8, level |-> "CLEAR"]

\* the decision pass: the guard that decided and its level
triage(instruction, config) ==
  IF GuardMatches(1, instruction, config) THEN [guard |-> 1, level |-> "TRIVIAL"]
  ELSE IF GuardMatches(2, instruction, config) THEN [guard |-> 2, level |-> "MULTI_STEP"]
  ELSE IF GuardMatches(3, instruction, config) THEN [guard |-> 3, level |-> "CROSS_SERVICE"]
  ELSE IF GuardMatches(4, instruction, config) THEN [guard |-> 4, level |-> "AMBIGUOUS"]
  ELSE IF GuardMatches(5, instruction, config) THEN [guard |-> 5, level |-> "TRIVIAL"]
  ELSE IF GuardMatches(6, instruction, config) THEN [guard |-> 6, level |-> "AMBIGUOUS"]
  ELSE IF GuardMatches(7, instruction, config) THEN [guard |-> 7, level |-> "AMBIGUOUS"]
  ELSE [guard |-> 8, level |-> "CLEAR"]

\* the escalation override: a matched pattern lifts the level to AMBIGUOUS
\* unless it is already as severe
escalate(level, matches) ==
  IF Len(matches) > 0 /\ Rank(level) < Rank("AMBIGUOUS")
  THEN "AMBIGUOUS" ELSE level

\* classify(instruction, config, patterns)
classify(instruction, config, patterns) ==
  escalate(triage(instruction, config).level,
           matchPatterns(instruction, patterns))

MaxTriageLog == 2

\* a correction log of well-formed entries, no snapshot yet
InitTriage ==
  /\ \E inputs \in SeqsUpTo(CorrectionInputs, MaxTriageLog) :
       log = [k \in 1..Len(inputs) |->
                JsonLine([timestamp |-> k - 1, branch |-> Branch,
                          user_said |-> inputs[k].what_user_said,
                          wrong_action |-> inputs[k].what_you_did_wrong,
                          root_cause |-> inputs[k].root_cause,
                          category |-> inputs[k].category])]
  /\ store = NoStore
  /\ ret = NoRet
  /\ sessions = <<>>
  /\ card = NoCard

\* one classification; decided and matched (not part of the program's
\* value) record the decision pass and the patterns consulted
Classify ==
  \E instruction \in TriageInstructions, config \in TriageConfigs :
    /\ LET decided == triage(instruction, config)
           matched == matchPatterns(instruction, loadPatterns(store))
       IN ret' = [op |-> "classify", seen |-> Len(log),
                  instruction |-> instruction, config |-> config,
                  decided |-> decided, matched |-> matched,
                  level |-> classify(instruction, config, loadPatterns(store))]
    /\ UNCHANGED <<log, store, sessions, card>>

NextTriage ==
  \/ RefreshPatterns
  \/ Classify

SpecTriage == InitTriage /\ [][NextTriage]_vars

\* ------------------------------------------------------------------------
\* extractPatterns on its own, on longer logs: ret holds the patterns it
\* returned for the log
\* ------------------------------------------------------------------------
MaxExtractLog == 5

\* corrections whose text has no keyword, nine keywords, and four keywords
\* of which one is "constructor"
BlankInput ==
  [what_user_said |-> <<"n", "o">>,
   what_you_did_wrong |-> <<>>,
   root_cause |-> <<>>,
   category |-> "other"]

WideInput ==
  [what_user_said |-> <<"a", "u", "t", "h", " ", "j", "w", "t", " ", "e", "x", "p", "i", "r", "y">>,
   what_you_did_wrong |-> <<"a", "p", "i", " ", "u", "r", "l", " ", "e", "n", "v">>,
   root_cause |-> <<"k", "e", "y", " ", "t", "l", "s", " ", "s", "s", "h">>,
   category |-> "wrong_scope"]

CtorInput ==
  [what_user_said |-> <<"c", "o", "n", "s", "t", "r", "u", "c", "t", "o", "r", " ", "c", "a", "c", "h", "e">>,
   what_you_did_wrong |-> <<"a", "u", "t", "h", " ", "i", "n", "i", "t">>,
   root_cause |-> <<>>,
   category |-> "wrong_file"]

ExtractInputs ==
  {inp \in CorrectionInputs : inp.category \in {"wrong_assumption", "other"}}
    \cup {BlankInput, WideInput, CtorInput}

\* the log that log_correction writes for the inputs, one per time unit
LogOf(inputs) ==
  [k \in 1..Len(inputs) |->
     JsonLine([timestamp |-> k - 1, branch |-> Branch,
               user_said |-> inputs[k].what_user_said,
               wrong_action |-> inputs[k].what_you_did_wrong,
               root_cause |-> inputs[k].root_cause,
               category |-> inputs[k].category])]

InitExtract ==
  /\ \E inputs \in SeqsUpTo(ExtractInputs, MaxExtractLog) : log = LogOf(inputs)
  /\ store = NoStore
  /\ ret = NoRet
  /\ sessions = <<>>
  /\ card = NoCard

ExtractPatterns ==
  /\ ret.op = "none"
  /\ ret' = [op |-> "extractPatterns", seen |-> Len(log),
             patterns |-> extractPatterns(readLog(log), Now)]
  /\ UNCHANGED <<log, store, sessions, card>>

NextExtract == ExtractPatterns

SpecExtract == InitExtract /\ [][NextExtract]_vars

\* ------------------------------------------------------------------------
\* The contract registry: store is the directory ~/.preflight/projects (the
\* contracts.json of each project hash that has one), ret the result of the
\* last call
\* ------------------------------------------------------------------------
MaxContracts == 2

\* a project directory as its callers name it
ProjectPaths == { <<"/", "w", "/", "a", "p", "i">>, <<"/", "w", "/", "a", "p", "i", "/">> }

\* path.resolve on an absolute path: a trailing separator is dropped
resolve(path) ==
  IF Len(path) > 1 /\ path[Len(path)] = "/"
  THEN SubSeq(path, 1, Len(path) - 1) ELSE path

\* sha256(...).digest("hex").slice(0, 12) of the string given, taken as
\* free of collisions
hashProjectDir(projectDir) == [sha256 |-> resolve(projectDir)]

projectHash(projectPath) == [sha256 |-> projectPath]

Contract(name, kind, file) == [name |-> name, kind |-> kind, file |-> file]

\* what extractContracts can find in the project
AutoContracts ==
  { Contract(<<"U", "s", "e", "r">>, "interface", <<"s", "r", "c", "/", "t", "y", "p", "e", "s", ".", "t", "s">>),
    Contract(<<"O", "r", "d", "e", "r">>, "type", <<"s", "r", "c", "/", "t", "y", "p", "e", "s", ".", "t", "s">>),
    Contract(<<"U", "s", "e", "r">>, "model", <<"p", "r", "i", "s", "m", "a", "/", "s", "c", "h", "e", "m", "a", ".", "p", "r", "i", "s", "m", "a">>) }

\* what loadManualContracts can find in .preflight/contracts
ManualContracts ==
  { Contract(<<"U", "s", "e", "r">>, "interface", <<".", "p", "r", "e", "f", "l", "i", "g", "h", "t", "/", "c", "o", "n", "t", "r", "a", "c", "t", "s", "/", "a", "p", "i", ".", "y", "m", "l">>),
    Contract(<<"I", "n", "v", "o", "i", "c", "e">>, "event", <<".", "p", "r", "e", "f", "l", "i", "g", "h", "t", "/", "c", "o", "n", "t", "r", "a", "c", "t", "s", "/", "a", "p", "i", ".", "y", "m", "l">>) }

\* a variant that keeps every auto-extracted contract
MergeContracts_all(manualContracts, autoContracts) ==
  manualContracts \o autoContracts

\* extractAndSaveContracts: manual contracts first, then the auto-extracted
\* ones whose name no manual contract has
MergeContracts(manualContracts, autoContracts) ==
  LET manualNames == {manualContracts[k].name : k \in 1..Len(manualContracts)}
  IN manualContracts
       \o SelectSeq(autoContracts, LAMBDA c : c.name \notin manualNames)

\* JSON.stringify(contracts, null, 2): the file holds a JSON array
JsonArray(contracts) == [json |-> "array", value |-> contracts]

NoProjects == [h \in {} |-> JsonArray(<<>>)]

\* saveContracts(projectHash, contracts)
saveContracts(dir, hash, contracts) ==
  [h \in DOMAIN dir \cup {hash} |->
     IF h = hash THEN JsonArray(contracts) ELSE dir[h]]

\* loadContracts(projectHash) of the registry
loadContracts(dir, hash) ==
  IF hash \notin DOMAIN dir THEN <<>> ELSE dir[hash].value

\* loadContracts(projectPath) of enrich_agent_task: data.entries ?? [] of the
\* parsed file.  The entries of a JSON array is the inherited method
\* Array.prototype.entries, a function; a file that holds anything else is
\* never written.  (Stored contracts have no summary field, so the summary
\* test of the lookup never matches and is left out.)
loadContractsOfPath(dir, projectPath) ==
  LET hash == projectHash(projectPath)
  IN IF hash \notin DOMAIN dir THEN [is |-> "list", items |-> <<>>]
     ELSE IF dir[hash].json = "array" THEN [is |-> "function"]
     ELSE [is |-> "list", items |-> <<>>]

\* the stop words of enrich_agent_task's extractKeywords
taskStopWords ==
  { <<"t", "h", "e">>, <<"a">>, <<"a", "n">>, <<"i", "s">>,
    <<"a", "r", "e">>, <<"w", "a", "s">>, <<"w", "e", "r", "e">>,
    <<"b", "e">>, <<"b", "e", "e", "n">>, <<"b", "e", "i", "n", "g">>,
    <<"h", "a", "v", "e">>, <<"h", "a", "s">>, <<"h", "a", "d">>,
    <<"d", "o">>, <<"d", "o", "e", "s">>, <<"d", "i", "d">>,
    <<"w", "i", "l", "l">>, <<"w", "o", "u", "l", "d">>,
    <<"c", "o", "u", "l", "d">>, <<"s", "h", "o", "u", "l", "d">>,
    <<"m", "a", "y">>, <<"m", "i", "g", "h", "t">>,
    <<"s", "h", "a", "l", "l">>, <<"c", "a", "n">>, <<"n", "e", "e", "d">>,
    <<"m", "u", "s", "t">>, <<"t", "o">>, <<"o", "f">>, <<"i", "n">>,
    <<"f", "o", "r">>, <<"o", "n">>, <<"w", "i", "t", "h">>, <<"a", "t">>,
    <<"b", "y">>, <<"f", "r", "o", "m">>, <<"a", "s">>,
    <<"i", "n", "t", "o">>, <<"a", "b", "o", "u", "t">>,
    <<"t", "h", "a", "t">>, <<"t", "h", "i", "s">>, <<"i", "t">>,
    <<"a", "n", "d">>, <<"o", "r">>, <<"b", "u", "t">>, <<"n", "o", "t">>,
    <<"i", "f">>, <<"t", "h", "e", "n">>, <<"e", "l", "s", "e">>,
    <<"w", "h", "e", "n">>, <<"u", "p">>, <<"o", "u", "t">>, <<"s", "o">>,
    <<"n", "o">>, <<"a", "l", "l">>, <<"a", "n", "y">>,
    <<"e", "a", "c", "h">>, <<"e", "v", "e", "r", "y">>, <<"a", "d", "d">>,
    <<"c", "r", "e", "a", "t", "e">>, <<"u", "p", "d", "a", "t", "e">>,
    <<"d", "e", "l", "e", "t", "e">>, <<"r", "e", "m", "o", "v", "e">>,
    <<"f", "i", "x">>, <<"i", "m", "p", "l", "e", "m", "e", "n", "t">>,
    <<"m", "a", "k", "e">>, <<"c", "h", "a", "n", "g", "e">>,
    <<"m", "o", "d", "i", "f", "y">>, <<"f", "i", "l", "e">>,
    <<"f", "i", "l", "e", "s">>, <<"c", "o", "d", "e">>,
    <<"t", "e", "s", "t">>, <<"t", "e", "s", "t", "s">> }

\* text.replace(/[^a-z0-9]+/g, " ") after toLowerCase
StripNonAlnum(text) ==
  [k \in 1..Len(text) |->
     IF text[k] \in Range(LowerLetters) \cup Digits THEN text[k] ELSE " "]

\* extractKeywords of enrich_agent_task
extractTaskKeywords(text) ==
  LET words == SplitBlank(StripNonAlnum(toLowerCase(text)), <<>>)
  IN SelectSeq(words, LAMBDA w : Len(w) > 2 /\ w \notin taskStopWords)

TaskDescriptions == { <<"F", "i", "x", " ", "t", "h", "e", " ", "U", "s", "e", "r", " ", "l", "o", "g", "i", "n">>, <<"f", "i", "x", " ", "i", "t">>, <<"u", "p", "d", "a", "t", "e", " ", "o", "r", "d", "e", "r", " ", "t", "y", "p", "e", "s">> }

\* what git ls-files finds in the related project for the keywords
RelatedFiles == { <<>>, << <<"s", "r", "c", "/", "t", "y", "p", "e", "s", ".", "t", "s">> >> }

MaxContractItems == 8

MaxItems == 12

\* the label of a contract in the context
ContractItem(entry) == [contract |-> entry.name, kind |-> entry.kind, file |-> entry.file]

FileItem(f) == [contract |-> <<>>, kind |-> "file", file |-> f]

\* the contract loop of buildCrossServiceContext: the entries whose name or
\* file contains a keyword, up to the limit
RECURSIVE MatchContracts(_, _, _)
MatchContracts(entries, keywords, items) ==
  IF entries = <<>> \/ Len(items) >= MaxContractItems THEN items
  ELSE
    LET entry == entries[1]
        hit == \E k \in 1..Len(keywords) :
                  \/ Includes(toLowerCase(entry.name), keywords[k])
                  \/ Includes(toLowerCase(entry.file), keywords[k])
    IN MatchContracts(Tail(entries), keywords,
                      IF hit THEN Append(items, ContractItem(entry)) ELSE items)

\* the file loop: the files no item names yet, up to the limit
RECURSIVE AddFiles(_, _)
AddFiles(files, items) ==
  IF files = <<>> \/ Len(items) >= MaxItems THEN items
  ELSE
    LET already == \E k \in 1..Len(items) : Includes(items[k].file, files[1])
    IN AddFiles(Tail(files),
                IF already THEN items ELSE Append(items, FileItem(files[1])))

\* buildCrossServiceContext for one related project: the items of its
\* section or the TypeError that for...of raises on a value that is not
\* iterable
buildCrossServiceContext(dir, taskDescription, projectPath, matchedFiles) ==
  LET keywords == extractTaskKeywords(taskDescription)
      contracts == loadContractsOfPath(dir, projectPath)
  IN IF Len(keywords) = 0 THEN [threw |-> FALSE, items |-> <<>>]
     ELSE IF contracts.is = "function" THEN [threw |-> TRUE, items |-> <<>>]
     ELSE [threw |-> FALSE,
           items |-> AddFiles(matchedFiles,
                              MatchContracts(contracts.items, keywords, <<>>))]

InitContracts ==
  /\ store = NoProjects
  /\ ret = NoRet
  /\ log = <<>>
  /\ sessions = <<>>
  /\ card = NoCard

ExtractAndSaveContracts ==
  \E projectDir \in ProjectPaths,
     autoContracts \in SeqsUpTo(AutoContracts, MaxContracts),
     manualContracts \in SeqsUpTo(ManualContracts, MaxContracts) :
    LET hash == hashProjectDir(resolve(projectDir))
        merged == MergeContracts(manualContracts, autoContracts)
    IN /\ store' = saveContracts(store, hash, merged)
       /\ ret' = [op |-> "extractAndSaveContracts", seen |-> 0,
                  projectDir |-> projectDir,
                  auto |-> autoContracts, manual |-> manualContracts,
                  count |-> Len(merged), hash |-> hash]
       /\ UNCHANGED <<log, sessions, card>>

BuildCrossServiceContext ==
  \E taskDescription \in TaskDescriptions, projectPath \in ProjectPaths,
     matchedFiles \in RelatedFiles :
    /\ ret' = [op |-> "buildCrossServiceContext", seen |-> 0,
               task |-> taskDescription, path |-> projectPath,
               files |-> matchedFiles,
               context |-> buildCrossServiceContext(store, taskDescription,
                                                    projectPath, matchedFiles)]
    /\ UNCHANGED <<store, log, sessions, card>>

NextContracts == ExtractAndSaveContracts \/ BuildCrossServiceContext

SpecContracts == InitContracts /\ [][NextContracts]_vars

\* ------------------------------------------------------------------------
\* estimate_cost: analyzeSessionFile on the lines of one session file.
\* sessions holds the lines of the file, ret the SessionAnalysis returned.
\* A line is described by what the function reads of it: whether it parses,
\* its type, the length of its text, whether CORRECTION_SIGNALS matches the
\* text, its tool_use blocks and its timestamp (0: absent or falsy).
\* ------------------------------------------------------------------------
MaxLines == 4

Line(type, len, signal, tools, ts) ==
  [json |-> TRUE, type |-> type, len |-> len, signal |-> signal,
   tools |-> tools, ts |-> ts]

ToolUse(name, inputLen) == [name |-> name, inputLen |-> inputLen]

LinePalette ==
  { Line("user", 8, TRUE, <<>>, 1),
    Line("user", 3, FALSE, <<>>, 0),
    Line("assistant", 8, FALSE, <<>>, 2),
    Line("assistant", 3, FALSE,
         <<ToolUse("preflight_check", 5), ToolUse("Read", 9),
           ToolUse("preflight_check", 2)>>, 0),
    Line("tool_result", 6, TRUE, <<>>, 3),
    Line("summary", 8, TRUE, <<>>, 0),
    [json |-> FALSE] }

PREFLIGHT_TOOLS ==
  {"preflight_check", "clarify_intent", "scope_work", "sharpen_followup",
   "token_audit", "prompt_score"}

\* Math.ceil(text.length / 4)
estimateTokens(len) == (len + 3) \div 4

NoAnalysis ==
  [inputTokens |-> 0, outputTokens |-> 0, promptCount |-> 0,
   toolCallCount |-> 0, corrections |-> 0, wastedOutputTokens |-> 0,
   preflightCalls |-> 0, preflightTokens |-> 0,
   firstTimestamp |-> 0, lastTimestamp |-> 0,
   lastType |-> "", lastAssistantTokens |-> 0]

\* the result with the timestamp of the line tracked
TrackTimestamp(acc, line) ==
  IF line.ts = 0 THEN acc
  ELSE [acc EXCEPT !.firstTimestamp = IF @ = 0 THEN line.ts ELSE @,
                   !.lastTimestamp = line.ts]

\* the tokens counted as preflight for one message: for every tool_use of a
\* preflight tool, the inputs of all tool_use blocks of that name
PreflightTokens(tools) ==
  SumSeq([k \in 1..Len(tools) |->
            IF tools[k].name \in PREFLIGHT_TOOLS
            THEN SumSeq([j \in 1..Len(tools) |->
                           IF tools[j].name = tools[k].name
                           THEN estimateTokens(tools[j].inputLen) ELSE 0])
            ELSE 0])

\* a variant that does not record the user line as the last line seen
AnalyzeLine_sticky(acc, line) ==
  IF ~line.json THEN acc
  ELSE
    LET a == TrackTimestamp(acc, line)
        tokens == estimateTokens(line.len)
    IN IF line.type = "user"
       THEN LET isCorrection == a.lastType = "assistant" /\ line.signal
            IN [a EXCEPT
                  !.inputTokens = @ + tokens,
                  !.promptCount = @ + 1,
                  !.corrections = IF isCorrection THEN @ + 1 ELSE @,
                  !.wastedOutputTokens =
                     IF isCorrection THEN @ + a.lastAssistantTokens ELSE @]
       ELSE IF line.type = "assistant"
       THEN [a EXCEPT
               !.outputTokens = @ + tokens,
               !.lastAssistantTokens = tokens,
               !.toolCallCount = @ + Len(line.tools),
               !.preflightCalls =
                  @ + Cardinality({k \in 1..Len(line.tools) :
                                     line.tools[k].name \in PREFLIGHT_TOOLS}),
               !.preflightTokens = @ + PreflightTokens(line.tools),
               !.lastType = "assistant"]
       ELSE IF line.type = "tool_result"
       THEN [a EXCEPT !.inputTokens = @ + tokens]
       ELSE a

\* the body of the loop of analyzeSessionFile for one line
AnalyzeLine(acc, line) ==
  IF ~line.json THEN acc
  ELSE
    LET a == TrackTimestamp(acc, line)
        tokens == estimateTokens(line.len)
    IN IF line.type = "user"
       THEN LET isCorrection == a.lastType = "assistant" /\ line.signal
            IN [a EXCEPT
                  !.inputTokens = @ + tokens,
                  !.promptCount = @ + 1,
                  !.corrections = IF isCorrection THEN @ + 1 ELSE @,
                  !.wastedOutputTokens =
                     IF isCorrection THEN @ + a.lastAssistantTokens ELSE @,
                  !.lastType = "user"]
       ELSE IF line.type = "assistant"
       THEN [a EXCEPT
               !.outputTokens = @ + tokens,
               !.lastAssistantTokens = tokens,
               !.toolCallCount = @ + Len(line.tools),
               !.preflightCalls =
                  @ + Cardinality({k \in 1..Len(line.tools) :
                                     line.tools[k].name \in PREFLIGHT_TOOLS}),
               !.preflightTokens = @ + PreflightTokens(line.tools),
               !.lastType = "assistant"]
       ELSE IF line.type = "tool_result"
       THEN [a EXCEPT !.inputTokens = @ + tokens]
       ELSE a

RECURSIVE AnalyzeLines(_, _)
AnalyzeLines(lines, acc) ==
  IF lines = <<>> THEN acc
  ELSE AnalyzeLines(Tail(lines), AnalyzeLine(acc, lines[1]))

\* analyzeSessionFile on the non-empty lines of the file
analyzeSessionFile(lines) ==
  LET acc == AnalyzeLines(lines, NoAnalysis)
  IN [f \in DOMAIN acc \ {"lastType", "lastAssistantTokens"} |-> acc[f]]

InitCost ==
  /\ sessions \in SeqsUpTo(LinePalette, MaxLines)
  /\ ret = NoRet
  /\ log = <<>>
  /\ store = NoStore
  /\ card = NoCard

AnalyzeSessionFile ==
  /\ ret.op = "none"
  /\ ret' = [op |-> "analyzeSessionFile", seen |-> 0,
             result |-> analyzeSessionFile(sessions)]
  /\ UNCHANGED <<sessions, log, store, card>>

NextCost == AnalyzeSessionFile

SpecCost == InitCost /\ [][NextCost]_vars

\* ------------------------------------------------------------------------
\* The profile system: store is the process environment (the variable
\* PROMPT_DISCIPLINE_PROFILE), ret the answer of the last isToolEnabled
\* ------------------------------------------------------------------------
MINIMAL_TOOLS ==
  {"clarify_intent", "check_session_health", "session_stats", "prompt_score"}

STANDARD_TOOLS ==
  {"scope_work", "clarify_intent", "enrich_agent_task", "sharpen_followup",
   "token_audit", "sequence_tasks", "checkpoint", "check_session_health",
   "log_correction", "audit_workspace", "session_handoff", "what_changed",
   "verify_completion",
   "session_stats", "prompt_score", "generate_scorecard",
   "onboard_project", "search_history", "timeline_view", "scan_sessions"}

FULL_TOOLS == STANDARD_TOOLS

Unset == [set |-> FALSE]

SetTo(value) == [set |-> TRUE, value |-> value]

\* values of PROMPT_DISCIPLINE_PROFILE
ProfileEnvs ==
  { Unset, SetTo(<<"m", "i", "n", "i", "m", "a", "l">>), SetTo(<<"M", "I", "N", "I", "M", "A", "L">>), SetTo(<<"s", "t", "a", "n", "d", "a", "r", "d">>),
    SetTo(<<"f", "u", "l", "l">>), SetTo(<<"F", "u", "l", "l">>), SetTo(<<"t", "u", "r", "b", "o">>), SetTo(<<>>),
    SetTo(<<" ", "m", "i", "n", "i", "m", "a", "l">>) }

\* names asked about: the registered tools and two that are in no set
ToolNames == STANDARD_TOOLS \cup {"estimate_cost", "preflight_check"}

\* a variant that falls back to the smallest profile
getProfile_minimalDefault(env) ==
  LET lower == IF env.set THEN toLowerCase(env.value) ELSE <<>>
  IN IF env.set /\ lower = <<"f", "u", "l", "l">> THEN "full"
     ELSE IF env.set /\ lower = <<"s", "t", "a", "n", "d", "a", "r", "d">> THEN "standard"
     ELSE "minimal"

\* getProfile: process.env.PROMPT_DISCIPLINE_PROFILE?.toLowerCase()
getProfile(env) ==
  LET lower == IF env.set THEN toLowerCase(env.value) ELSE <<>>
  IN IF env.set /\ lower = <<"m", "i", "n", "i", "m", "a", "l">> THEN "minimal"
     ELSE IF env.set /\ lower = <<"f", "u", "l", "l">> THEN "full"
     ELSE "standard"

isToolEnabled(toolName, env) ==
  LET profile == getProfile(env)
  IN IF profile = "minimal" THEN toolName \in MINIMAL_TOOLS
     ELSE IF profile = "standard" THEN toolName \in STANDARD_TOOLS
     ELSE toolName \in FULL_TOOLS

InitProfile ==
  /\ store \in ProfileEnvs
  /\ ret = NoRet
  /\ log = <<>>
  /\ sessions = <<>>
  /\ card = NoCard

IsToolEnabled ==
  \E toolName \in ToolNames :
    /\ ret' = [op |-> "isToolEnabled", seen |-> 0, toolName |-> toolName,
               enabled |-> isToolEnabled(toolName, store)]
    /\ UNCHANGED <<store, log, sessions, card>>

NextProfile == IsToolEnabled

SpecProfile == InitProfile /\ [][NextProfile]_vars

\* ------------------------------------------------------------------------
\* log_correction and refreshPatterns in several server processes on one
\* state directory.  A refreshPatterns is two steps, the read of the log
\* (extractPatterns) and the save of the snapshot (savePatterns); the
\* append of log_correction is one write.  ret.pending holds, per process,
\* the patterns a refresh has extracted and not yet saved; ret.lastRead is
\* the length the log had when the refresh that saved last read it (not
\* part of the program's state).
\* ------------------------------------------------------------------------
MaxRaceLog == 3

Refreshers == {1, 2}

RaceInputs ==
  {inp \in CorrectionInputs : inp.category \in {"wrong_assumption", "other"}}

Idle == [busy |-> FALSE, patterns |-> <<>>, at |-> 0]

InitRace ==
  /\ log = <<>>
  /\ store = NoStore
  /\ ret = [op |-> "none", seen |-> 0, total |-> 0,
            pending |-> [r \in Refreshers |-> Idle],
            patterns |-> <<>>, lastRead |-> 0]
  /\ sessions = <<>>
  /\ card = NoCard

\* log_correction in one process: the append and the summary it returns
AppendCorrection ==
  \E inp \in RaceInputs :
    /\ Len(log) < MaxRaceLog
    /\ LET entry == [timestamp |-> Now, branch |-> Branch,
                     user_said |-> inp.what_user_said,
                     wrong_action |-> inp.what_you_did_wrong,
                     root_cause |-> inp.root_cause,
                     category |-> inp.category]
           written == Append(log, JsonLine(entry))
       IN /\ log' = written
          /\ ret' = [ret EXCEPT !.op = "log_correction",
                                !.seen = Len(written),
                                !.total = Len(ParseAllOrNone(written))]
    /\ UNCHANGED <<store, sessions, card>>

\* a variant of the read that misses the last line of the log
RefreshRead_stale ==
  \E r \in Refreshers :
    /\ ~ret.pending[r].busy
    /\ ret' = [ret EXCEPT
                 !.op = "refreshRead",
                 !.seen = Len(log),
                 !.pending[r] =
                    [busy |-> TRUE,
                     patterns |->
                       extractPatterns(
                         readLog(SubSeq(log, 1, Max(0, Len(log) - 1))), Now),
                     at |-> Len(log)]]
    /\ UNCHANGED <<log, store, sessions, card>>

\* the first half of refreshPatterns: const patterns = extractPatterns()
RefreshRead ==
  \E r \in Refreshers :
    /\ ~ret.pending[r].busy
    /\ ret' = [ret EXCEPT
                 !.op = "refreshRead",
                 !.seen = Len(log),
                 !.pending[r] =
                    [busy |-> TRUE,
                     patterns |-> extractPatterns(readLog(log), Now),
                     at |-> Len(log)]]
    /\ UNCHANGED <<log, store, sessions, card>>

\* the second half: savePatterns(patterns); return patterns
RefreshSave ==
  \E r \in Refreshers :
    /\ ret.pending[r].busy
    /\ store' = savePatterns(ret.pending[r].patterns, Now)
    /\ ret' = [ret EXCEPT !.op = "refreshSave",
                          !.seen = Len(log),
                          !.pending[r] = Idle,
                          !.patterns = ret.pending[r].patterns,
                          !.lastRead = ret.pending[r].at]
    /\ UNCHANGED <<log, sessions, card>>

NextRace == AppendCorrection \/ RefreshRead \/ RefreshSave

SpecRace == InitRace /\ [][NextRace]_vars

\* ========================================================================
\* Properties of the scorecard
\* ========================================================================
Scored == card # NoCard

CatIdx == 1..Len(card.categories)

CatNamed(name) ==
  card.categories[CHOOSE k \in CatIdx : card.categories[k].name = name]

ScoreTotal == SumSeq([k \in CatIdx |-> card.categories[k].score])

\* C1: every CategoryScore of a returned Scorecard, default and early-return
\* paths included, has grade = letterGrade(score).
C1_GradeFollowsScore ==
  Scored => \A k \in CatIdx :
              card.categories[k].grade = letterGrade(card.categories[k].score)

\* C2: overall is the arithmetic mean of the 12 category scores rounded to
\* the nearest integer (halves upwards), and overallGrade is
\* letterGrade(overall).
C2_OverallIsRoundedMean ==
  Scored =>
    /\ Len(card.categories) = 12
    /\ 12 * card.overall <= ScoreTotal + 6
    /\ ScoreTotal + 6 < 12 * card.overall + 12
    /\ card.overallGrade = letterGrade(card.overall)

\* a scorecard whose mean is not an integer and rounds upwards
C2_Witness == Scored /\ ScoreTotal % 12 >= 6

MaxScore == CHOOSE m \in {card.categories[k].score : k \in CatIdx} :
              \A k \in CatIdx : card.categories[k].score <= m

MinScore == CHOOSE m \in {card.categories[k].score : k \in CatIdx} :
              \A k \in CatIdx : card.categories[k].score >= m

IdxWithScore(v) == {k \in CatIdx : card.categories[k].score = v}

FirstOf(S) == CHOOSE k \in S : \A j \in S : k <= j

LastOf(S) == CHOOSE k \in S : \A j \in S : k >= j

\* C4 as claimed: best has the maximum and worst the minimum score; among
\* tied worst categories the earliest is chosen and among tied best
\* categories the latest.
C4_TiesWorstFirstBestLast ==
  Scored =>
    /\ card.highlights.best = card.categories[LastOf(IdxWithScore(MaxScore))]
    /\ card.highlights.worst = card.categories[FirstOf(IdxWithScore(MinScore))]

\* C4 amended: best has the maximum and worst the minimum score; among
\* tied best categories the earliest in the fixed order is chosen and among
\* tied worst categories the latest.
C4_TiesBestFirstWorstLast ==
  Scored =>
    /\ card.highlights.best.score = MaxScore
    /\ card.highlights.worst.score = MinScore
    /\ card.highlights.best = card.categories[FirstOf(IdxWithScore(MaxScore))]
    /\ card.highlights.worst = card.categories[LastOf(IdxWithScore(MinScore))]

\* a scorecard with a tie for best and a tie for worst
C4_Witness ==
  /\ Scored
  /\ Cardinality(IdxWithScore(MaxScore)) >= 2
  /\ Cardinality(IdxWithScore(MinScore)) >= 2
  /\ MinScore < MaxScore

\* C5: on an empty session collection the scorecard has 12 categories that
\* carry neutral defaults (Plans = 75, Delegation = 75), no score or
\* evidence comes from a division by zero, and overall is the rounded mean.
C5_EmptyInputUsesDefaults ==
  (Scored /\ sessions = <<>>) =>
    /\ Len(card.categories) = 12
    /\ CatNamed("Plans").score = 75
    /\ CatNamed("Delegation").score = 75
    /\ \A k \in CatIdx : ~card.categories[k].evidence.nan
    /\ card.overall = MathRound(ScoreTotal, 12)

\* the inputs of Error Recovery, counted directly on the session events
EventsOf(k) == sessions[k].events

CorrectionPos ==
  UNION {{<<k, i>> : i \in {j \in 1..Len(EventsOf(k)) :
                              EventsOf(k)[j].type = "correction"}} :
         k \in 1..Len(sessions)}

RecoveredPos ==
  {p \in CorrectionPos :
     \E j \in (p[2] + 1)..(p[2] + 2) :
        /\ j <= Len(EventsOf(p[1]))
        /\ EventsOf(p[1])[j].type \in {"tool_call", "assistant_response"}}

NumEvents == SumSeq([k \in 1..Len(sessions) |-> Len(EventsOf(k))])

NumCorr == Cardinality(CorrectionPos)

\* P: the percentage of corrections that are recovered, as an integer
RecoveredPct == MathRound(100 * Cardinality(RecoveredPos), NumCorr)

Clamp100(v) == IF v < 0 THEN 0 ELSE IF v > 100 THEN 100 ELSE v

\* C6 as claimed: with at least one correction the Error Recovery score is
\* 100 - 500 * corrections/events + 0.2 * P, rounded and clamped once;
\* with no corrections it is 95.
C6_ClampedOnce ==
  Scored =>
    CatNamed("Error Recovery").score =
      IF NumCorr = 0 THEN 95
      ELSE Clamp100(MathRound(500 * NumEvents - 2500 * NumCorr
                                + RecoveredPct * NumEvents, 5 * NumEvents))

\* C6 amended: the base 100 - 500 * corrections/events is rounded and
\* clamped to [0,100] first, then 0.2 * P is added and the sum is rounded
\* and clamped again; with no corrections the score is 95.
C6_ClampedTwice ==
  Scored =>
    CatNamed("Error Recovery").score =
      IF NumCorr = 0 THEN 95
      ELSE LET base == Clamp100(MathRound(100 * NumEvents - 500 * NumCorr,
                                          NumEvents))
           IN Clamp100(MathRound(5 * base + RecoveredPct, 5))

\* corrections exist, the base is below zero before clamping and some
\* correction was recovered
C6_Witness ==
  /\ Scored
  /\ NumCorr >= 1
  /\ 100 * NumEvents < 500 * NumCorr
  /\ Cardinality(RecoveredPos) >= 1

\* ========================================================================
\* Properties of the correction log and the pattern learner
\* ========================================================================
\* the last handler's result describes the log as it is now
Fresh(op) == ret.op = op /\ ret.seen = Len(log)

Parsed == readLog(log)

\* keywords of the k-th parsed correction, as a set
KwSet(k) == Range(extractKeywords(EntryText(Parsed[k])))

\* the clusters behind a list of patterns, as sets of log positions
ClusterSets(patterns) ==
  {Range(patterns[k].members) : k \in 1..Len(patterns)}

Perms(n) == {f \in [1..n -> 1..n] : \A i, j \in 1..n : f[i] = f[j] => i = j}

\* the clusters extractPatterns finds on the log rearranged by f, given as
\* sets of positions of the log as it is
ClustersPermuted(f) ==
  LET moved == [k \in 1..Len(Parsed) |-> Parsed[f[k]]]
      found == extractPatterns(moved, Now)
  IN {{f[k] : k \in Range(found[q].members)} : q \in 1..Len(found)}

\* C3 as claimed: for every correction log and every permutation of it
\* extractPatterns yields the same set of clusters.
C3_OrderInsensitive ==
  Fresh("refreshPatterns") =>
    \A f \in Perms(Len(Parsed)) :
       ClustersPermuted(f) = ClusterSets(ret.patterns)

\* overlap of at least 0.3 between two corrections of the log
Related(i, j) ==
  Similar(extractKeywords(EntryText(Parsed[i])),
          extractKeywords(EntryText(Parsed[j])))

TransitiveLog ==
  \A i, j, k \in 1..Len(Parsed) :
     (i # j /\ j # k /\ i # k /\ Related(i, j) /\ Related(j, k))
       => Related(i, k)

\* C3 amended: on a correction log whose 0.3-overlap relation is
\* transitive, every permutation of the log yields the same set of
\* clusters.
C3_OrderInsensitiveIfTransitive ==
  (Fresh("refreshPatterns") /\ TransitiveLog) =>
    \A f \in Perms(Len(Parsed)) :
       ClustersPermuted(f) = ClusterSets(ret.patterns)

\* a refreshed log of three corrections with a transitive relation, one
\* cluster and one correction outside of it
C3_Witness ==
  /\ Fresh("refreshPatterns")
  /\ TransitiveLog
  /\ Len(Parsed) >= 3
  /\ Len(ret.patterns) >= 1
  /\ \E k \in 1..Len(Parsed) : k \notin UNION ClusterSets(ret.patterns)

\* the entries of the log that parse, whatever the other lines are
ParseableEntries ==
  LET good == SelectSeq(log, LAMBDA l : l.json)
  IN [k \in 1..Len(good) |-> good[k].value]

CountOfKey(counts, key) ==
  IF \E k \in 1..Len(counts) : counts[k][1] = key
  THEN counts[CHOOSE k \in 1..Len(counts) : counts[k][1] = key][2]
  ELSE 0

EntriesWithKey(key) ==
  Cardinality({k \in 1..Len(ParseableEntries) :
                 CategoryKey(ParseableEntries[k]) = key})

\* C7: a line that does not parse is skipped and the summaries of
\* log_correction and of the incoming handoff still count every parseable
\* entry of the log.
C7_BadLineSkipped ==
  /\ Fresh("log_correction") =>
       /\ ret.total = Len(ParseableEntries)
       /\ \A key \in Categories \cup {"undefined"} :
             CountOfKey(ret.categoryCounts, key) = EntriesWithKey(key)
  /\ (Fresh("session_handoff") /\ ret.direction = "incoming"
        /\ Len(ParseableEntries) > 0) =>
       /\ ret.knownErrorPatterns
       /\ \A key \in Categories \cup {"undefined"} :
             CountOfKey(ret.cats, key) = EntriesWithKey(key)

Occurs(part, text) ==
  \E a \in 1..(Len(text) + 1) :
     /\ a + Len(part) - 1 <= Len(text)
     /\ SubSeq(text, a, a + Len(part) - 1) = part

HitCount(p) ==
  Cardinality({k \in 1..Len(p.keywords) :
                 Occurs(p.keywords[k], toLowerCase(ret.prompt))})

\* C9: matchPatterns returns exactly the patterns with at least 2 stored
\* keywords occurring as substrings of the lowercased instruction, in
\* their order; an empty pattern list gives an empty result.
C9_MatchNeedsTwoHits ==
  ret.op = "matchPatterns" =>
    /\ ret.matches =
         SelectSeq(ret.patterns, LAMBDA p : HitCount(p) >= 2)
    /\ (ret.patterns = <<>> => ret.matches = <<>>)

\* a prompt matched a learned pattern
C9_Witness ==
  /\ ret.op = "matchPatterns"
  /\ Len(ret.matches) >= 1
  /\ \E k \in 1..Len(ret.matches) : HitCount(ret.matches[k]) = 2

\* membership, ranked keywords and frequency of each pattern, in order
Essence(patterns) ==
  [k \in 1..Len(patterns) |->
     [members |-> patterns[k].members,
      keywords |-> patterns[k].keywords,
      frequency |-> patterns[k].frequency]]

\* C10: a refreshPatterns that follows a refreshPatterns on an unchanged
\* log returns and persists patterns with the same membership, the same
\* ranked keywords and the same frequencies.
C10_RefreshIdempotent ==
  [][(Fresh("refreshPatterns") /\ ret'.op = "refreshPatterns")
       => /\ Essence(ret'.patterns) = Essence(ret.patterns)
          /\ Essence(loadPatterns(store')) = Essence(loadPatterns(store))]_vars

\* a refresh that found a pattern has just been repeated
C10_Witness ==
  /\ Fresh("refreshPatterns")
  /\ Len(ret.patterns) >= 1
  /\ ret.again

\* ---- C11 ----
\* the number of entries that parse, in a list of lines
EntryCount(lines) == Cardinality({k \in 1..Len(lines) : lines[k].json})

\* the sum of the counts of a category summary
SumOfCounts(counts) == SumSeq([k \in 1..Len(counts) |-> counts[k][2]])

\* C11: every step keeps the lines already in the correction log as they
\* are (append-only), and a log_correction step adds exactly one entry at
\* the end and returns a summary whose total is the previous entry count
\* plus one and whose per-category counts sum to that total
C11_AppendOnlyAndSummary ==
  [][/\ Len(log') >= Len(log)
     /\ SubSeq(log', 1, Len(log)) = log
     /\ (ret'.op = "log_correction" /\ ret'.seen = Len(log') /\ log' # log)
          => /\ Len(log') = Len(log) + 1
             /\ log'[Len(log')].json
             /\ log'[Len(log')].value.category \in Categories
             /\ ret'.total = EntryCount(log) + 1
             /\ SumOfCounts(ret'.categoryCounts) = ret'.total]_vars

\* ---- C12 ----
\* C12: right after refreshPatterns returns, the snapshot that loadPatterns
\* reads back is the list of patterns extracted from the whole current
\* correction log (nothing of an earlier snapshot survives), and it is the
\* value refreshPatterns returned
C12_SnapshotIsDerivedView ==
  Fresh("refreshPatterns") =>
    /\ store.exists
    /\ loadPatterns(store) = extractPatterns(readLog(log), Now)
    /\ ret.patterns = loadPatterns(store)

\* a refreshPatterns has returned on a full log and saved a pattern whose
\* cluster spans every line of it
C12_Witness ==
  /\ Fresh("refreshPatterns")
  /\ Len(ret.patterns) >= 1
  /\ store.updated = Len(log)
  /\ Len(log) = MaxLog
  /\ \E k \in 1..Len(ret.patterns) : Len(ret.patterns[k].members) = MaxLog

\* ---- C13 ----
\* C13: every category score and the overall score of a scorecard is an
\* integer from 0 to 100
C13_ScoresInRange ==
  Scored =>
    /\ card.overall \in 0..100
    /\ \A k \in CatIdx : card.categories[k].score \in 0..100

\* a scorecard on a collection with sessions of more than 200 tool calls
\* whose penalty exceeds the step value
C13_Witness ==
  /\ Scored
  /\ CatNamed("Token Efficiency").score = 0
  /\ CatNamed("Token Efficiency").evidence.args[3] >= 5

\* ---- C14 ----
Classified == ret.op = "classify"

\* the guards that match the classified instruction
MatchingGuards ==
  {i \in 1..8 : GuardMatches(i, ret.instruction, ret.config)}

FirstOfGuards(guards) == CHOOSE i \in guards : \A j \in guards : i <= j

LevelOfGuard(i) ==
  IF i \in {1, 5} THEN "TRIVIAL"
  ELSE IF i = 2 THEN "MULTI_STEP"
  ELSE IF i = 3 THEN "CROSS_SERVICE"
  ELSE IF i = 8 THEN "CLEAR"
  ELSE "AMBIGUOUS"

\* C14: the decision pass returns the level of the first of the eight
\* guards, in the listed order, that matches (CLEAR when only the last
\* one does), so one of the five levels is returned for every instruction;
\* an instruction of fewer than 20 characters that is a short command and
\* contains no skip, multi-step, cross-service or always_check keyword is
\* TRIVIAL (no learned pattern matching it), although the guard for fewer
\* than 50 characters without file reference matches it too
C14_FirstGuardWins ==
  Classified =>
    LET guards == MatchingGuards
        first == FirstOfGuards(guards)
    IN /\ ret.level \in Levels
       /\ ret.decided.guard = first
       /\ ret.decided.level = LevelOfGuard(first)
       /\ (guards = {8} => ret.decided.level = "CLEAR")
       /\ (/\ Len(ret.instruction) < 20
           /\ toLowerCase(ret.instruction) \in ShortCommands
           /\ guards \cap {1, 2, 3, 4} = {}
           /\ ret.matched = <<>>
           => ret.level = "TRIVIAL")

\* "fix the tests" was classified TRIVIAL by guard 5 while guard 6 matches
C14_Witness ==
  /\ Classified
  /\ ret.instruction = <<"f", "i", "x", " ", "t", "h", "e", " ", "t", "e", "s", "t", "s">>
  /\ ret.decided.guard = 5
  /\ 6 \in MatchingGuards
  /\ ret.level = "TRIVIAL"

\* ---- C15 ----
\* number of keywords of pattern p that occur in the lowercased instruction
InstructionHits(p) ==
  Cardinality({k \in 1..Len(p.keywords) :
                 Occurs(p.keywords[k], toLowerCase(ret.instruction))})

\* the instruction matches at least 2 keywords of a learned pattern
MatchesLearned ==
  \E k \in 1..Len(loadPatterns(store)) :
     InstructionHits(loadPatterns(store)[k]) >= 2

C16_AlwaysCheckWins ==
  (Classified /\ ContainsAny(ret.instruction, ret.config.always_check))
    => Rank(ret.level) >= Rank("AMBIGUOUS")

\* ---- C17 ----
\* the distinct files touched by the tool calls of the whole collection
FilesTouched ==
  UNION {{sessions[k].toolCalls[j].file :
            j \in 1..Len(sessions[k].toolCalls)} : k \in 1..Len(sessions)}
    \ {""}

ToolCallTotal == SumSeq([k \in 1..Len(sessions) |-> Len(sessions[k].toolCalls)])

BloatedSessions ==
  Cardinality({k \in 1..Len(sessions) : Len(sessions[k].toolCalls) > 200})

\* the step function on the ratio calls / files
RatioStep(calls, files) ==
  IF calls <= 5 * files THEN 100
  ELSE IF calls <= 10 * files THEN 90
  ELSE IF calls <= 20 * files THEN 75
  ELSE IF calls <= 40 * files THEN 60
  ELSE 40

\* C17: the Token Efficiency score is the step function (ratio <= 5 -> 100,
\* <= 10 -> 90, <= 20 -> 75, <= 40 -> 60, otherwise 40) of the total number
\* of tool calls divided by the number of distinct files touched across
\* the collection, less 10 for each session of more than 200 tool calls,
\* not below 0 (stated for collections that touch at least one file)
C17_TokenEfficiencyByDistinctFiles ==
  (Scored /\ FilesTouched # {}) =>
    CatNamed("Token Efficiency").score =
      Max(0, RatioStep(ToolCallTotal, Cardinality(FilesTouched))
               - 10 * BloatedSessions)

\* ---- C18 ----
\* the compactions of the collection, as <<session, position>>
CompactionsAt ==
  {<<k, i>> \in (1..Len(sessions)) \X (1..NumEvents) :
     i <= Len(sessions[k].events) /\ sessions[k].events[i].type = "compaction"}

\* a commit occurs among the up to 10 events right before position c[2] of
\* session c[1]
CommitShortlyBefore(c) ==
  \E j \in 1..(c[2] - 1) :
     /\ c[2] - j <= 10
     /\ sessions[c[1]].events[j].type = "git_commit"

CoveredCompactions == {c \in CompactionsAt : CommitShortlyBefore(c)}

\* C18: the Compaction Management score is the percentage (rounded to the
\* nearest integer) of the compaction events of all sessions that have a
\* commit among the up to 10 events right before them in their own
\* session; commits after the compaction or further back do not count;
\* without any compaction the score is 100
C18_CompactionCoverage ==
  Scored =>
    LET total == Cardinality(CompactionsAt)
        covered == Cardinality(CoveredCompactions)
        score == CatNamed("Compaction Management").score
    IN IF total = 0 THEN score = 100
       ELSE /\ 2 * total * score <= 200 * covered + total
            /\ 200 * covered + total < 2 * total * (score + 1)

\* a scorecard on a collection in which one compaction has a commit within
\* its 10 preceding events and another has its only commit 11 events back
C18_Witness ==
  /\ Scored
  /\ CoveredCompactions # {}
  /\ \E c \in CompactionsAt \ CoveredCompactions :
        /\ c[2] > 11
        /\ sessions[c[1]].events[c[2] - 11].type = "git_commit"

\* ---- C19 ----
\* the user prompts of the collection whose nearest earlier prompt or
\* assistant response is an assistant response, as <<session, position>>
FollowUpsAt ==
  {<<k, i>> \in (1..Len(sessions)) \X (1..NumEvents) :
     /\ i <= Len(sessions[k].events)
     /\ sessions[k].events[i].type = "user_prompt"
     /\ \E j \in 1..(i - 1) :
          /\ sessions[k].events[j].type = "assistant_response"
          /\ \A m \in (j + 1)..(i - 1) :
               sessions[k].events[m].type
                 \notin {"assistant_response", "user_prompt"}}

SpawnTotal ==
  SumSeq([k \in 1..Len(sessions) |-> Len(sessions[k].subAgentSpawns)])

\* the category reports the neutral default and its evidence is not a
\* ratio over nothing
NeutralDefault(cat) ==
  /\ cat.score = 75
  /\ ~(Len(cat.evidence.args) = 2 /\ cat.evidence.args[2] = 0)

\* C19: Delegation, Follow-up Specificity, Session Lifecycle, Workspace
\* Hygiene, Cross-Session Continuity and Verification return the neutral
\* default with an explanatory evidence text, not a percentage over an
\* empty denominator, whenever their denominator (sub-agent spawns,
\* follow-up prompts, sessions) is zero
C19_ZeroDenominatorDefaults ==
  Scored =>
    /\ (SpawnTotal = 0 => NeutralDefault(CatNamed("Delegation")))
    /\ (FollowUpsAt = {} => NeutralDefault(CatNamed("Follow-up Specificity")))
    /\ (Len(sessions) = 0 =>
          /\ NeutralDefault(CatNamed("Session Lifecycle"))
          /\ NeutralDefault(CatNamed("Workspace Hygiene"))
          /\ NeutralDefault(CatNamed("Cross-Session Continuity"))
          /\ NeutralDefault(CatNamed("Verification")))

\* ---- C20 ----
Views ==
  [userMessages |-> "user_prompt", assistantMessages |-> "assistant_response",
   toolCalls |-> "tool_call", corrections |-> "correction",
   compactions |-> "compaction", commits |-> "git_commit",
   subAgentSpawns |-> "sub_agent_spawn"]

\* the positions of the events of type t in the given list, ascending
PositionsOf(events, t) ==
  Ascending({i \in 1..Len(events) : events[i].type = t})

\* C20: each derived view of the session that classifyEvents returns is
\* the subsequence, in order, of exactly the events of its type; no
\* position of the event list is taken twice within a view or by two
\* views; the events list of the session is the list given
C20_ViewsAreSubsequences ==
  ret.op = "classifyEvents" =>
    /\ ret.session.events = ret.events
    /\ \A v \in DOMAIN Views :
         LET pos == PositionsOf(ret.events, Views[v])
         IN ret.session[v] = [n \in 1..Len(pos) |-> ret.events[pos[n]]]
    /\ \A v, w \in DOMAIN Views :
         v # w => Range(PositionsOf(ret.events, Views[v]))
                    \cap Range(PositionsOf(ret.events, Views[w])) = {}
    /\ Len(ret.session.userMessages) + Len(ret.session.assistantMessages)
         + Len(ret.session.toolCalls) + Len(ret.session.corrections)
         + Len(ret.session.compactions) + Len(ret.session.commits)
         + Len(ret.session.subAgentSpawns)
         = Cardinality({i \in 1..Len(ret.events) :
                          ret.events[i].type \in Range(Views)})

\* a session from a list that holds the same prompt twice around a
\* correction, and an event that belongs to no view
C20_Witness ==
  /\ ret.op = "classifyEvents"
  /\ Len(ret.events) = MaxEvents
  /\ Len(ret.session.userMessages) = 2
  /\ ret.session.userMessages[1] = ret.session.userMessages[2]
  /\ \E i \in 1..Len(ret.events) : ret.events[i].type \notin Range(Views)

\* ---- C21 ----
\* the timestamps that parse do not decrease along the list
NonDecreasing(events) ==
  \A i, j \in 1..Len(events) :
     (i < j /\ events[i].tsValid /\ events[j].tsValid)
       => events[i].ts <= events[j].ts

\* C21: durationMinutes is the timestamp of the last event minus that of
\* the first, in minutes; it is 0 for fewer than two events and when one
\* of the two timestamps does not parse; with timestamps that do not
\* decrease it is never negative
C21_Duration ==
  ret.op = "classifyEvents" =>
    LET e == ret.events
        n == Len(ret.events)
        d == ret.session.durationMinutes
    IN /\ (n < 2 => d = 0)
       /\ (n >= 2 /\ ~(e[1].tsValid /\ e[n].tsValid) => d = 0)
       /\ (n >= 2 /\ e[1].tsValid /\ e[n].tsValid => d = e[n].ts - e[1].ts)
       /\ (NonDecreasing(e) => d >= 0)

\* a session of ordered events with a positive duration whose middle
\* event has a timestamp that does not parse
C21_Witness ==
  /\ ret.op = "classifyEvents"
  /\ Len(ret.events) >= 3
  /\ NonDecreasing(ret.events)
  /\ ~ret.events[2].tsValid
  /\ ret.session.durationMinutes > 0

\* ---- C22 ----
Extracted == ret.op = "extractPatterns"

\* C22: the list extractPatterns returns is ordered by non-increasing
\* frequency, and patterns of equal frequency are in the order in which
\* their clusters were found (ascending id, ascending seed position)
C22_SortedByFrequency ==
  Extracted =>
    \A k \in 1..(Len(ret.patterns) - 1) :
       LET p == ret.patterns[k]
           q == ret.patterns[k + 1]
       IN /\ p.frequency >= q.frequency
          /\ (p.frequency = q.frequency
                => p.id < q.id /\ p.members[1] < q.members[1])

\* a list in which the larger cluster, found second, comes first
C22_Witness ==
  /\ Extracted
  /\ Len(ret.patterns) >= 2
  /\ ret.patterns[1].frequency > ret.patterns[2].frequency
  /\ ret.patterns[1].id > ret.patterns[2].id

\* ---- C23 ----
\* the keywords of the corrections of the log, by position
LogKeywords ==
  LET entries == EntryIndex(readLog(log))
  IN [i \in 1..Len(entries) |-> Range(entries[i].keywords)]

\* the claim's statement for one pattern: kws[i] are the keywords of
\* correction i
TopKeywordsOf(p, kws) ==
  LET cluster == UNION {kws[m] : m \in Range(p.members)}
      inCluster(kw) == Cardinality({m \in Range(p.members) : kw \in kws[m]})
      n == Len(p.keywords)
  IN /\ n <= 8
     /\ \A i, j \in 1..n : i # j => p.keywords[i] # p.keywords[j]
     /\ Range(p.keywords) \subseteq cluster
     /\ \A k \in 1..(n - 1) :
           inCluster(p.keywords[k]) >= inCluster(p.keywords[k + 1])
     /\ \A kw \in cluster \ Range(p.keywords) :
           \A k \in 1..n : inCluster(kw) <= inCluster(p.keywords[k])

\* C23: the keywords of every pattern are at most 8, without duplicates,
\* keywords of member corrections, in order of non-increasing in-cluster
\* frequency, and no omitted keyword of the cluster is strictly more
\* frequent in the cluster than an included one
C23_TopKeywords ==
  Extracted =>
    LET kws == LogKeywords
    IN \A k \in 1..Len(ret.patterns) : TopKeywordsOf(ret.patterns[k], kws)

\* the same for the clusters none of whose keywords names an inherited
\* property of the counting object
C23_NumericCounts ==
  Extracted =>
    LET kws == LogKeywords
    IN \A k \in 1..Len(ret.patterns) :
         LET p == ret.patterns[k]
             cluster == UNION {kws[m] : m \in Range(p.members)}
         IN cluster \cap (InheritedKeys \cup {ProtoKey}) = {}
              => TopKeywordsOf(p, kws)

\* a cluster of nine keywords with numeric counts, of which eight are kept
C23_NumericWitness ==
  /\ Extracted
  /\ \E k \in 1..Len(ret.patterns) :
        LET p == ret.patterns[k]
            cluster == UNION {LogKeywords[m] : m \in Range(p.members)}
        IN /\ cluster \cap InheritedKeys = {}
           /\ Cardinality(cluster) > 8
           /\ Len(p.keywords) = 8
           /\ p.frequency >= 3

\* ---- C26 ----
\* |a \cap b| / min(|a|, |b|) >= 0.3 on keyword sets; an empty set has
\* overlap 0
Overlaps(a, b) ==
  /\ a # {}
  /\ b # {}
  /\ 10 * Cardinality(a \cap b) >= 3 * Min(Cardinality(a), Cardinality(b))

\* the corrections among the first n that seed a cluster: those that
\* overlap with no earlier seed
RECURSIVE SeedsUpTo(_, _)
SeedsUpTo(n, kws) ==
  IF n = 0 THEN {}
  ELSE LET prev == SeedsUpTo(n - 1, kws)
       IN IF \E i \in prev : Overlaps(kws[i], kws[n]) THEN prev
          ELSE prev \cup {n}

\* the corrections that join the cluster of seed i: the later ones that
\* overlap with i and with no seed before i
JoinersOf(i, seeds, kws) ==
  {j \in (i + 1)..Len(kws) :
     /\ Overlaps(kws[i], kws[j])
     /\ \A h \in seeds : h < i => ~Overlaps(kws[h], kws[j])}

\* C26: the patterns are the clusters of the greedy single pass: every
\* correction not yet in a cluster seeds one, a later correction not yet in
\* a cluster joins it exactly when its keyword overlap with the seed is at
\* least 0.3, whatever its overlap with the other members; a correction
\* without keywords is in no pattern
C26_GreedySeedClusters ==
  Extracted =>
    LET kws == LogKeywords
        seeds == SeedsUpTo(Len(kws), kws)
        clusters == {<<i>> \o Ascending(JoinersOf(i, seeds, kws)) :
                       i \in {h \in seeds : JoinersOf(h, seeds, kws) # {}}}
    IN /\ {ret.patterns[k].members : k \in 1..Len(ret.patterns)} = clusters
       /\ Len(ret.patterns) = Cardinality(clusters)
       /\ \A k \in 1..Len(ret.patterns) :
             \A m \in Range(ret.patterns[k].members) : kws[m] # {}

\* a correction that overlaps with an absorbed member of a cluster, not
\* with its seed, stays outside; and a correction without keywords stands
\* between a seed and a member
C26_Witness ==
  /\ Extracted
  /\ \E k \in 1..Len(ret.patterns) :
        LET mem == ret.patterns[k].members
            kws == LogKeywords
        IN /\ \E j \in 1..Len(kws) :
                 /\ j > mem[1]
                 /\ \A q \in 1..Len(ret.patterns) :
                       j \notin Range(ret.patterns[q].members)
                 /\ ~Overlaps(kws[mem[1]], kws[j])
                 /\ \E m \in Range(mem) : m < j /\ Overlaps(kws[m], kws[j])
           /\ \E b \in 1..Len(kws) :
                 kws[b] = {} /\ mem[1] < b /\ b < mem[Len(mem)]

\* ---- C27 ----
\* C27: the clusters behind the patterns are pairwise disjoint, the
\* frequencies of the patterns add up to at most the number of corrections
\* read, and the ids of the patterns are pairwise distinct
C27_DisjointClusters ==
  Extracted =>
    LET ps == ret.patterns
        n == Len(ps)
    IN /\ \A i, j \in 1..n :
             i # j => Range(ps[i].members) \cap Range(ps[j].members) = {}
       /\ \A i \in 1..n : ps[i].frequency = Cardinality(Range(ps[i].members))
       /\ SumSeq([k \in 1..n |-> ps[k].frequency]) <= Len(readLog(log))
       /\ \A i, j \in 1..n : i # j => ps[i].id # ps[j].id

\* two patterns, and a correction that is in neither
C27_Witness ==
  /\ Extracted
  /\ Len(ret.patterns) = 2
  /\ ret.patterns[1].frequency + ret.patterns[2].frequency < Len(log)

\* ---- C24 ----
\* how often c occurs in the list
Occurrences(list, c) == Cardinality({k \in 1..Len(list) : list[k] = c})

\* C24: the list extractAndSaveContracts saves holds every manual contract
\* and exactly the auto-extracted contracts whose name no manual contract
\* has, and the count it returns is the length of that list
C24_ManualPrecedence ==
  ret.op = "extractAndSaveContracts" =>
    LET saved == loadContracts(store, ret.hash)
        manualNames == {ret.manual[k].name : k \in 1..Len(ret.manual)}
    IN /\ \A c \in AutoContracts \cup ManualContracts :
             Occurrences(saved, c) =
               Occurrences(ret.manual, c)
                 + (IF c.name \in manualNames THEN 0
                    ELSE Occurrences(ret.auto, c))
       /\ ret.count = Len(saved)

\* a manual contract has displaced an auto-extracted one of its name, and
\* another auto-extracted contract is saved
C24_Witness ==
  /\ ret.op = "extractAndSaveContracts"
  /\ \E i \in 1..Len(ret.manual), j \in 1..Len(ret.auto) :
        /\ ret.manual[i].name = ret.auto[j].name
        /\ ret.manual[i] # ret.auto[j]
  /\ \E j \in 1..Len(ret.auto) :
        ret.auto[j] \in Range(loadContracts(store, ret.hash))

\* ---- C25 ----
\* C25: when contracts are stored for the project path that the
\* cross-service lookup is given, the lookup loads the entries that were
\* saved, and every stored contract whose name contains a keyword of the
\* task appears in the context
C25_StoredContractsAreRead ==
  (ret.op = "buildCrossServiceContext" /\ projectHash(ret.path) \in DOMAIN store)
    => LET saved == loadContracts(store, projectHash(ret.path))
           keywords == extractTaskKeywords(ret.task)
       IN /\ loadContractsOfPath(store, ret.path) = [is |-> "list", items |-> saved]
          /\ ~ret.context.threw
          /\ \A k \in 1..Len(saved) :
                (\E q \in 1..Len(keywords) :
                    Includes(toLowerCase(saved[k].name), keywords[q]))
                  => ContractItem(saved[k]) \in Range(ret.context.items)

\* ---- C29 ----
UserOrAssistant(line) == line.json /\ line.type \in {"user", "assistant"}

\* the position of the most recent user or assistant line before k, or 0
PrecedingTurn(lines, k) ==
  LET before == {j \in 1..(k - 1) : UserOrAssistant(lines[j])}
  IN IF before = {} THEN 0 ELSE CHOOSE j \in before : \A i \in before : i <= j

\* the user lines that follow an assistant turn and carry a correction
\* signal
CorrectionLines(lines) ==
  {k \in 1..Len(lines) :
     /\ lines[k].json
     /\ lines[k].type = "user"
     /\ lines[k].signal
     /\ PrecedingTurn(lines, k) # 0
     /\ lines[PrecedingTurn(lines, k)].type = "assistant"}

\* C29: analyzeSessionFile counts corrections only on user lines whose most
\* recent preceding user or assistant line is an assistant line, adds the
\* output tokens of an assistant line to wastedOutputTokens at most once,
\* and ends with corrections <= promptCount and
\* wastedOutputTokens <= outputTokens
C29_CorrectionsFollowAssistant ==
  ret.op = "analyzeSessionFile" =>
    LET lines == sessions
        counted == CorrectionLines(lines)
        blamed == {PrecedingTurn(lines, k) : k \in counted}
        r == ret.result
    IN /\ r.corrections = Cardinality(counted)
       /\ Cardinality(blamed) = Cardinality(counted)
       /\ r.wastedOutputTokens =
            SumSeq([j \in 1..Len(lines) |->
                      IF j \in blamed THEN estimateTokens(lines[j].len) ELSE 0])
       /\ r.corrections <= r.promptCount
       /\ r.wastedOutputTokens <= r.outputTokens

\* a correction behind a tool result is counted, a second correction in a
\* row is not
C29_Witness ==
  /\ ret.op = "analyzeSessionFile"
  /\ Len(sessions) = 4
  /\ sessions[1].json /\ sessions[1].type = "assistant"
  /\ sessions[2].json /\ sessions[2].type = "tool_result"
  /\ sessions[3].json /\ sessions[3].type = "user" /\ sessions[3].signal
  /\ sessions[4] = sessions[3]
  /\ ret.result.corrections = 1
  /\ ret.result.wastedOutputTokens > 0

\* ---- C30 ----
\* the environment in which the profile is the one named
ProfileNamed(name) ==
  CHOOSE env \in ProfileEnvs : env.set /\ env.value = name

\* the value is none of the three profile names, whatever its case
Unrecognised(env) ==
  env.set /\ toLowerCase(env.value) \notin { <<"m", "i", "n", "i", "m", "a", "l">>, <<"s", "t", "a", "n", "d", "a", "r", "d">>, <<"f", "u", "l", "l">> }

\* C30: a tool enabled under the profile minimal is enabled under standard;
\* a tool is enabled under standard exactly when it is enabled under full;
\* with PROMPT_DISCIPLINE_PROFILE unset or set to a value that is not a
\* profile name, every tool is enabled exactly when it is under standard
C30_ProfileMonotone ==
  ret.op = "isToolEnabled" =>
    LET underStandard == isToolEnabled(ret.toolName, ProfileNamed(<<"s", "t", "a", "n", "d", "a", "r", "d">>))
        underFull == isToolEnabled(ret.toolName, ProfileNamed(<<"f", "u", "l", "l">>))
    IN /\ (store = ProfileNamed(<<"m", "i", "n", "i", "m", "a", "l">>) /\ ret.enabled => underStandard)
       /\ (store = ProfileNamed(<<"s", "t", "a", "n", "d", "a", "r", "d">>) => ret.enabled = underFull)
       /\ (store = ProfileNamed(<<"f", "u", "l", "l">>) => ret.enabled = underStandard)
       /\ (~store.set \/ Unrecognised(store) => ret.enabled = underStandard)

\* a tool that the profile minimal leaves out is enabled although the
\* variable holds a value that is not a profile name
C30_Witness ==
  /\ ret.op = "isToolEnabled"
  /\ Unrecognised(store)
  /\ ret.toolName \notin MINIMAL_TOOLS
  /\ ret.enabled

\* ---- C28 ----
\* the patterns of the first k lines of the log, extracted when the log
\* had k lines
ClusteringOfPrefix(k) == extractPatterns(readLog(SubSeq(log, 1, k)), k)

\* a step of refreshPatterns leaves the log as it is, a step of
\* log_correction leaves the snapshot as it is
RaceFootprint ==
  /\ (ret'.op \in {"refreshRead", "refreshSave"} /\ ret' # ret) => log' = log
  /\ (ret'.op = "log_correction" /\ ret' # ret) => store' = store

SnapshotOfSomePrefix ==
  \E k \in 0..Len(log) : loadPatterns(store) = ClusteringOfPrefix(k)

SnapshotOfWholeLog == loadPatterns(store) = ClusteringOfPrefix(Len(log))

\* no correction was appended since the refresh that saved last read the log
NothingAppendedSinceRead == store.exists /\ ret.lastRead = Len(log)

\* C28 as stated: in every interleaving refreshPatterns never changes the
\* log, log_correction never changes the snapshot, the snapshot is the
\* clustering of some prefix of the log, and once a refresh has completed
\* the snapshot is the clustering of the whole log only if no correction
\* was appended since the read of the last completed refresh
C28_SnapshotOnlyIfNoAppend ==
  /\ [][RaceFootprint]_vars
  /\ [](SnapshotOfSomePrefix
        /\ ((store.exists /\ SnapshotOfWholeLog) => NothingAppendedSinceRead))

\* C28 amended: in every interleaving refreshPatterns never changes the
\* log, log_correction never changes the snapshot, the snapshot is the
\* clustering of some prefix of the log, and it is the clustering of the
\* whole log if no correction was appended since the read of the last
\* completed refresh
C28_SnapshotIfNoAppend ==
  /\ [][RaceFootprint]_vars
  /\ [](SnapshotOfSomePrefix
        /\ (NothingAppendedSinceRead => SnapshotOfWholeLog))

\* a correction was appended between the read and the save of a refresh:
\* the snapshot just saved misses a pattern of the log
C28_Witness ==
  /\ ret.op = "refreshSave"
  /\ ret.lastRead < Len(log)
  /\ ~SnapshotOfWholeLog
  /\ Len(ClusteringOfPrefix(Len(log))) > Len(loadPatterns(store))

====
